---- MODULE Spec2Model ----
(***************************************************************************)
(* The markdown-to-HTML converter of the site (src/unnamed/part_000).      *)
(* A text is a sequence of one-character strings.  Every regular           *)
(* expression of the source is an operator that returns, for a position    *)
(* of the text, the match the JavaScript engine finds there (its end and   *)
(* its replacement), and String.prototype.replace with the g flag is the   *)
(* left-to-right scan Rewrite.                                             *)
(***************************************************************************)
EXTENDS Integers, Sequences, FiniteSets, TLC

VARIABLES
    pc,         \* position in parseMarkdown / parseLists / parseHeaders
    markdown,   \* the argument of the running function
    html,       \* the local "html" of parseMarkdown ("text" of a pass)
    lines,      \* wrapListItems: text.split('\n')
    i,          \* wrapListItems: the loop index (1-based)
    result,     \* wrapListItems: the lines pushed so far
    inList,     \* wrapListItems: the flag
    listStack,  \* wrapListItems: the open frames, bottom first
    index,           \* scripts.js: characters of the word on display
    profissaoIndex,  \* scripts.js: the word on display (0-based)
    isErasing,       \* scripts.js: the flag
    cursorAnimation, \* scripts.js: the handle of the cursor's timer
    innerHTML,       \* the content of the element #profissao
    animation,       \* style.animation of the element #cursor
    timers,          \* pending setTimeout calls, per callback
    elements         \* the ids present in the document

typing == <<index, profissaoIndex, isErasing, cursorAnimation, innerHTML,
            animation, timers, elements>>

vars == <<pc, markdown, html, lines, i, result, inList, listStack, typing>>

(***************************************************************************)
(* Characters                                                              *)
(***************************************************************************)
NL == "\n"
SP == " "
QUOTE == "\""

Lower == {"a","b","c","d","e","f","g","h","i","j","k","l","m",
          "n","o","p","q","r","s","t","u","v","w","x","y","z"}
Upper == {"A","B","C","D","E","F","G","H","I","J","K","L","M",
          "N","O","P","Q","R","S","T","U","V","W","X","Y","Z"}
Digit == {"0","1","2","3","4","5","6","7","8","9"}

\* \w
WordChar == Lower \cup Upper \cup Digit \cup {"_"}
\* \s (the ASCII part of it)
WhiteSpace == {" ", "\t", "\n", "\r", "\f"}
\* what "." does not match and what "^" and "$" (m flag) stop at
LineTerminator == {"\n", "\r"}

toLowerCaseChar(c) ==
    CASE c = "A" -> "a" [] c = "B" -> "b" [] c = "C" -> "c" [] c = "D" -> "d"
      [] c = "E" -> "e" [] c = "F" -> "f" [] c = "G" -> "g" [] c = "H" -> "h"
      [] c = "I" -> "i" [] c = "J" -> "j" [] c = "K" -> "k" [] c = "L" -> "l"
      [] c = "M" -> "m" [] c = "N" -> "n" [] c = "O" -> "o" [] c = "P" -> "p"
      [] c = "Q" -> "q" [] c = "R" -> "r" [] c = "S" -> "s" [] c = "T" -> "t"
      [] c = "U" -> "u" [] c = "V" -> "v" [] c = "W" -> "w" [] c = "X" -> "x"
      [] c = "Y" -> "y" [] c = "Z" -> "z" [] OTHER -> c

(***************************************************************************)
(* String helpers                                                          *)
(***************************************************************************)
Min(S) == CHOOSE x \in S : \A y \in S : x <= y
Max(S) == CHOOSE x \in S : \A y \in S : x >= y

\* text.substring(a - 1, b): the characters at positions a..b
Sub(text, a, b) == IF a > b THEN <<>> ELSE SubSeq(text, a, b)

\* whether pat occurs in text at position p
StartsAt(text, p, pat) ==
    /\ p >= 1
    /\ p + Len(pat) - 1 <= Len(text)
    /\ \A k \in 1..Len(pat) : text[p + k - 1] = pat[k]

\* text.startsWith(pat)
StartsWith(text, pat) == StartsAt(text, 1, pat)

\* text.endsWith(pat)
EndsWith(text, pat) == StartsAt(text, Len(text) - Len(pat) + 1, pat)

\* the least position >= p where pat occurs, 0 when there is none
Find(text, p, pat) ==
    LET hits == {j \in p..Len(text) : StartsAt(text, j, pat)}
    IN  IF hits = {} THEN 0 ELSE Min(hits)

\* the greatest position where pat occurs, 0 when there is none
FindLast(text, pat) ==
    LET hits == {j \in 1..Len(text) : StartsAt(text, j, pat)}
    IN  IF hits = {} THEN 0 ELSE Max(hits)

\* text.includes(pat)
Includes(text, pat) == Find(text, 1, pat) # 0

\* the end of the longest run of characters of S that starts at p:
\* the first position >= p whose character is not in S (Len + 1 at the end)
RunEnd(text, p, S) ==
    Min({j \in p..(Len(text) + 1) : j = Len(text) + 1 \/ text[j] \notin S})

\* the first position >= p holding a character of S (Len + 1 at the end)
StopAt(text, p, S) ==
    Min({j \in p..(Len(text) + 1) : j = Len(text) + 1 \/ text[j] \in S})

\* where "^" matches under the m flag
AtLineStart(text, p) == p = 1 \/ (p > 1 /\ text[p - 1] \in LineTerminator)

\* String.prototype.trim
Trim(text) ==
    LET keep == {j \in 1..Len(text) : text[j] \notin WhiteSpace}
    IN  IF keep = {} THEN <<>> ELSE SubSeq(text, Min(keep), Max(keep))

\* A match of a regular expression at one position: the position after it
\* and the text that replaces it.
NoMatch == [ok |-> FALSE, end |-> 0, out |-> <<>>]
Match(e, o) == [ok |-> TRUE, end |-> e, out |-> o]

\* text.replace(/re/g, ...) from position p on: m[q] is the match of re at
\* position q.  The scan copies the text up to the leftmost match, emits the
\* replacement of the match and goes on after it.
RECURSIVE Rewrite(_, _, _)
Rewrite(text, m, p) ==
    LET hits == {q \in p..Len(text) : m[q].ok}
    IN  IF hits = {} THEN Sub(text, p, Len(text))
        ELSE Sub(text, p, Min(hits) - 1) \o m[Min(hits)].out
                 \o Rewrite(text, m, m[Min(hits)].end)

\* text.split(sep), sep not empty
RECURSIVE Split(_, _)
Split(text, sep) ==
    LET j == Find(text, 1, sep)
    IN  IF j = 0 THEN <<text>>
        ELSE <<Sub(text, 1, j - 1)>> \o Split(Sub(text, j + Len(sep), Len(text)), sep)

\* parts.join(sep)
RECURSIVE Join(_, _)
Join(parts, sep) ==
    IF parts = <<>> THEN <<>>
    ELSE IF Len(parts) = 1 THEN parts[1]
    ELSE parts[1] \o sep \o Join(Tail(parts), sep)

(***************************************************************************)
(* escapeHtml                                                              *)
(***************************************************************************)
htmlEscapes(c) ==
    CASE c = "&"   -> <<"&","a","m","p",";">>
      [] c = "<"   -> <<"&","l","t",";">>
      [] c = ">"   -> <<"&","g","t",";">>
      [] c = QUOTE -> <<"&","q","u","o","t",";">>
      [] c = "'"   -> <<"&","#","3","9",";">>
      [] OTHER     -> <<c>>

\* /[&<>"']/ at p
EscapeMatch(text, p) ==
    IF text[p] \in {"&", "<", ">", QUOTE, "'"} THEN Match(p + 1, htmlEscapes(text[p])) ELSE NoMatch

escapeHtml(text) == Rewrite(text, [p \in 1..Len(text) |-> EscapeMatch(text, p)], 1)

(***************************************************************************)
(* parseCodeBlocks                                                         *)
(***************************************************************************)
\* U+0060 cannot be written in a string of the module: this value stands for it
BackTick == "BACKTICK"
Fence == <<BackTick, BackTick, BackTick>>
PreCodeOpen == <<"<","p","r","e",">","<","c","o","d","e">>
PreCodeClose == <<"<","/","c","o","d","e",">","<","/","p","r","e",">">>
LanguageAttr(language) ==
    <<" ","c","l","a","s","s","=",QUOTE,"l","a","n","g","u","a","g","e","-">>
        \o language \o <<QUOTE>>

\* the replacement callbacks of parseCodeBlocks
CodeBlockHtml(language, code) ==
    PreCodeOpen
        \o (IF language = <<>> THEN <<>> ELSE LanguageAttr(language))
        \o <<">">> \o escapeHtml(Trim(code)) \o PreCodeClose

\* the fence expressions with a block that runs to the end of the text when
\* no closing fence follows
FencedMatch_ToEnd(text, p, withLanguage) ==
    IF ~StartsAt(text, p, Fence) THEN NoMatch
    ELSE LET w == IF withLanguage THEN RunEnd(text, p + 3, WordChar) ELSE p + 3
             close == Find(text, w + 1, <<NL>> \o Fence)
             stop == IF close = 0 THEN Len(text) + 1 ELSE close
         IN  IF ~StartsAt(text, w, <<NL>>) THEN NoMatch
             ELSE Match(IF close = 0 THEN stop ELSE close + 4,
                        CodeBlockHtml(Sub(text, p + 3, w - 1), Sub(text, w + 1, stop - 1)))

\* /```(\w+)?\n([\s\S]*?)\n```/ at p; withLanguage = FALSE is the second
\* expression, /```\n([\s\S]*?)\n```/
FencedMatch(text, p, withLanguage) ==
    IF ~StartsAt(text, p, Fence) THEN NoMatch
    ELSE LET w == IF withLanguage THEN RunEnd(text, p + 3, WordChar) ELSE p + 3
             close == Find(text, w + 1, <<NL>> \o Fence)
         IN  IF ~StartsAt(text, w, <<NL>>) \/ close = 0 THEN NoMatch
             ELSE Match(close + 4,
                        CodeBlockHtml(Sub(text, p + 3, w - 1), Sub(text, w + 1, close - 1)))

parseCodeBlocks(text) ==
    LET first == Rewrite(text, [p \in 1..Len(text) |-> FencedMatch(text, p, TRUE)], 1)
    IN  Rewrite(first, [p \in 1..Len(first) |-> FencedMatch(first, p, FALSE)], 1)

(***************************************************************************)
(* parseInlineCode                                                         *)
(***************************************************************************)
CodeOpen == <<"<","c","o","d","e",">">>
CodeClose == <<"<","/","c","o","d","e",">">>

\* /`([^`]+)`/ at p
InlineCodeMatch(text, p) ==
    IF ~StartsAt(text, p, <<BackTick>>) THEN NoMatch
    ELSE LET close == Find(text, p + 1, <<BackTick>>)
         IN  IF close = 0 \/ close = p + 1 THEN NoMatch
             ELSE Match(close + 1, CodeOpen \o Sub(text, p + 1, close - 1) \o CodeClose)

parseInlineCode(text) ==
    Rewrite(text, [p \in 1..Len(text) |-> InlineCodeMatch(text, p)], 1)

(***************************************************************************)
(* Numbers in template literals, parseInt                                  *)
(***************************************************************************)
DigitChar(d) ==
    CASE d = 0 -> "0" [] d = 1 -> "1" [] d = 2 -> "2" [] d = 3 -> "3" [] d = 4 -> "4"
      [] d = 5 -> "5" [] d = 6 -> "6" [] d = 7 -> "7" [] d = 8 -> "8" [] d = 9 -> "9"

DigitValue(c) ==
    CASE c = "0" -> 0 [] c = "1" -> 1 [] c = "2" -> 2 [] c = "3" -> 3 [] c = "4" -> 4
      [] c = "5" -> 5 [] c = "6" -> 6 [] c = "7" -> 7 [] c = "8" -> 8 [] c = "9" -> 9

\* `${n}` for an integer n >= 0
RECURSIVE NatToString(_)
NatToString(n) ==
    IF n < 10 THEN <<DigitChar(n)>> ELSE NatToString(n \div 10) \o <<DigitChar(n % 10)>>

\* `${n / 2}` for an integer n >= 0: a whole number, or one that ends in .5
HalfToString(n) ==
    IF n % 2 = 0 THEN NatToString(n \div 2) ELSE NatToString(n \div 2) \o <<".","5">>

\* parseInt of a non-empty run of digits
RECURSIVE parseInt(_)
parseInt(digits) ==
    IF digits = <<>> THEN 0
    ELSE 10 * parseInt(SubSeq(digits, 1, Len(digits) - 1)) + DigitValue(digits[Len(digits)])

(***************************************************************************)
(* The common tail /\s+(.+)$/ (m flag) of the line expressions             *)
(***************************************************************************)
NoTail == [ok |-> FALSE, from |-> 0, to |-> 0]

\* \s+ is greedy and spans line breaks; it gives characters back only when
\* the white space runs to the end of the text, and then (.+) takes the last
\* line of it.  The content is text[from..to] and the match ends after to.
RestOfLine(text, q) ==
    LET w == RunEnd(text, q, WhiteSpace)
    IN  IF w = q THEN NoTail
        ELSE IF w <= Len(text)
             THEN [ok |-> TRUE, from |-> w, to |-> StopAt(text, w, LineTerminator) - 1]
        ELSE LET back == {j \in (q + 1)..Len(text) : text[j] \notin LineTerminator}
             IN  IF back = {} THEN NoTail
                 ELSE [ok |-> TRUE, from |-> Max(back),
                       to |-> StopAt(text, Max(back), LineTerminator) - 1]

(***************************************************************************)
(* parseHeaders, generateHeaderId                                          *)
(***************************************************************************)
toLowerCase(text) == [k \in 1..Len(text) |-> toLowerCaseChar(text[k])]

\* .replace(/[^\w\s-]/g, '')
RemoveSpecial(text) == SelectSeq(text, LAMBDA c : c \in WordChar \cup WhiteSpace \cup {"-"})

\* .replace(/\s+/g, '-')
SpaceRunMatch(text, p) ==
    IF text[p] \in WhiteSpace THEN Match(RunEnd(text, p, WhiteSpace), <<"-">>) ELSE NoMatch

SpacesToHyphens(text) ==
    Rewrite(text, [p \in 1..Len(text) |-> SpaceRunMatch(text, p)], 1)

\* generateHeaderId without line 85
generateHeaderId_NoLowerCase(text) == Trim(SpacesToHyphens(RemoveSpecial(text)))

generateHeaderId(text) == Trim(SpacesToHyphens(RemoveSpecial(toLowerCase(text))))

\* the replacement callback of parseHeaders
HeaderHtml(level, content) ==
    <<"<","h">> \o NatToString(level) \o <<" ","i","d","=",QUOTE>>
        \o generateHeaderId(content) \o <<QUOTE,">">> \o Trim(content)
        \o <<"<","/","h">> \o NatToString(level) \o <<">">>

\* /^(#{1,6})\s+(.+)$/m at p
HeaderMatch(text, p) ==
    IF ~AtLineStart(text, p) THEN NoMatch
    ELSE LET h == RunEnd(text, p, {"#"})
             rest == RestOfLine(text, h)
         IN  IF h - p < 1 \/ h - p > 6 \/ ~rest.ok THEN NoMatch
             ELSE Match(rest.to + 1, HeaderHtml(h - p, Sub(text, rest.from, rest.to)))

parseHeaders(text) ==
    Rewrite(text, [p \in 1..Len(text) |-> HeaderMatch(text, p)], 1)

(***************************************************************************)
(* parseBlockquotes                                                        *)
(***************************************************************************)
\* /^>\s+(.+)$/m at p
BlockquoteMatch(text, p) ==
    IF ~(AtLineStart(text, p) /\ text[p] = ">") THEN NoMatch
    ELSE LET rest == RestOfLine(text, p + 1)
         IN  IF ~rest.ok THEN NoMatch
             ELSE Match(rest.to + 1,
                        <<"<","b","l","o","c","k","q","u","o","t","e",">">>
                            \o Sub(text, rest.from, rest.to)
                            \o <<"<","/","b","l","o","c","k","q","u","o","t","e",">">>)

parseBlockquotes(text) ==
    Rewrite(text, [p \in 1..Len(text) |-> BlockquoteMatch(text, p)], 1)

(***************************************************************************)
(* parseLists: the per-line rewrite                                        *)
(***************************************************************************)
LiLevelOpen == <<"<","l","i"," ","d","a","t","a","-","l","e","v","e","l","=",QUOTE>>
OrderedAttr == <<" ","d","a","t","a","-","o","r","d","e","r","e","d","=",QUOTE,"t","r","u","e",QUOTE>>
LiClose == <<"<","/","l","i",">">>

\* const level = indent.length / 2, as the template literal prints it
LevelOfIndent(indentLength) == HalfToString(indentLength)

\* the replacement callbacks of parseLists
TaggedItem(indentLength, ordered, content) ==
    LiLevelOpen \o LevelOfIndent(indentLength) \o <<QUOTE>>
        \o (IF ordered THEN OrderedAttr ELSE <<>>) \o <<">">> \o content \o LiClose

\* /^(\s*)-\s+(.+)$/m at p: (\s*) takes every white-space character from
\* the start of the line on, line breaks included
UnorderedMatch(text, p) ==
    IF ~AtLineStart(text, p) THEN NoMatch
    ELSE LET d == RunEnd(text, p, WhiteSpace)
             rest == RestOfLine(text, d + 1)
         IN  IF ~StartsAt(text, d, <<"-">>) \/ ~rest.ok THEN NoMatch
             ELSE Match(rest.to + 1, TaggedItem(d - p, FALSE, Sub(text, rest.from, rest.to)))

\* /^(\s*)\d+\.\s+(.+)$/m at p
OrderedMatch(text, p) ==
    IF ~AtLineStart(text, p) THEN NoMatch
    ELSE LET d == RunEnd(text, p, WhiteSpace)
             e == RunEnd(text, d, Digit)
             rest == RestOfLine(text, e + 1)
         IN  IF e = d \/ ~StartsAt(text, e, <<".">>) \/ ~rest.ok THEN NoMatch
             ELSE Match(rest.to + 1, TaggedItem(d - p, TRUE, Sub(text, rest.from, rest.to)))

\* lines 107-116 of parseLists: both rewrites, before wrapListItems
TagListItems(text) ==
    LET first == Rewrite(text, [p \in 1..Len(text) |-> UnorderedMatch(text, p)], 1)
    IN  Rewrite(first, [p \in 1..Len(first) |-> OrderedMatch(first, p)], 1)

(***************************************************************************)
(* wrapListItems                                                           *)
(***************************************************************************)
UlOpen == <<"<","u","l",">">>
OlOpen == <<"<","o","l",">">>
UlClose == <<"<","/","u","l",">">>
OlClose == <<"<","/","o","l",">">>
LiOpen == <<"<","l","i",">">>
OrderedMark == <<"d","a","t","a","-","o","r","d","e","r","e","d","=",QUOTE,"t","r","u","e",QUOTE>>

NoItem == [ok |-> FALSE, level |-> 0, isOrdered |-> FALSE, content |-> <<>>]

\* /<li data-level="(\d+)"(?: data-ordered="true")?>(.*)<\/li>/ tried at
\* position s of the line: the digits must end at the closing quote, and
\* (.*) runs to the last </li> before the next line terminator
ListMatchAt(line, s) ==
    LET d == s + Len(LiLevelOpen)
        e == RunEnd(line, d, Digit)
        g == IF StartsAt(line, e + 1, OrderedAttr) THEN e + 1 + Len(OrderedAttr) ELSE e + 1
        stop == StopAt(line, g + 1, LineTerminator)
        ends == {k \in (g + 1)..(stop - Len(LiClose)) : StartsAt(line, k, LiClose)}
    IN  IF /\ StartsAt(line, s, LiLevelOpen)
           /\ e > d
           /\ StartsAt(line, e, <<QUOTE>>)
           /\ StartsAt(line, g, <<">">>)
           /\ ends # {}
        THEN [ok |-> TRUE, level |-> parseInt(Sub(line, d, e - 1)),
              isOrdered |-> Includes(line, OrderedMark),
              content |-> Sub(line, g + 1, Max(ends) - 1)]
        ELSE NoItem

\* line.match(...): the leftmost position where the expression matches
ListMatch(line) ==
    LET hits == {s \in 1..Len(line) : ListMatchAt(line, s).ok}
    IN  IF hits = {} THEN NoItem ELSE ListMatchAt(line, Min(hits))

OpenTag(isOrdered) == IF isOrdered THEN OlOpen ELSE UlOpen
CloseTag(isOrdered) == IF isOrdered THEN OlClose ELSE UlClose
ItemLine(content) == LiOpen \o content \o LiClose
Frame(level, isOrdered) == [level |-> level, isOrdered |-> isOrdered]

\* The locals of wrapListItems that the loop updates, lines 131-133.
ScanState(r, l, s) == [result |-> r, inList |-> l, listStack |-> s]
ScanInit == ScanState(<<>>, FALSE, <<>>)

\* the pop loops without the push of the closing tag
RECURSIVE PopFrames_Silent(_, _)
PopFrames_Silent(st, floor) ==
    LET n == Len(st.listStack)
    IN  IF n > 0 /\ st.listStack[n].level >= floor
        THEN PopFrames_Silent(ScanState(st.result, st.inList, SubSeq(st.listStack, 1, n - 1)),
                              floor)
        ELSE st

\* lines 163-166 and 179-182, 190-193: pop and close frames while the top
\* frame's level is >= floor; floor = -1 pops them all
RECURSIVE PopFrames(_, _)
PopFrames(st, floor) ==
    LET n == Len(st.listStack)
    IN  IF n > 0 /\ st.listStack[n].level >= floor
        THEN PopFrames(ScanState(Append(st.result, CloseTag(st.listStack[n].isOrdered)),
                                 st.inList,
                                 SubSeq(st.listStack, 1, n - 1)),
                       floor)
        ELSE st

PushItem(st, m) ==
    ScanState(Append(st.result, ItemLine(m.content)), st.inList, st.listStack)

\* push a frame on the given stack and emit its opening tag
PushOpen(st, stack, m) ==
    ScanState(Append(st.result, OpenTag(m.isOrdered)), TRUE,
              Append(stack, Frame(m.level, m.isOrdered)))

\* lines 144-149
StartNewList(st, m) == PushItem(PushOpen(st, <<>>, m), m)

\* lines 153-155
SameList(st, m) == PushItem(st, m)

\* the nested branch without the push of the frame (line 158)
NestedList_NoFrame(st, m) ==
    PushItem(ScanState(Append(st.result, OpenTag(m.isOrdered)), TRUE, st.listStack), m)

\* lines 156-160
NestedList(st, m) == PushItem(PushOpen(st, st.listStack, m), m)

\* lines 161-174
CloseNested(st, m) ==
    LET popped == PopFrames(st, m.level)
    IN  IF Len(popped.listStack) = 0
        THEN PushItem(PushOpen(popped, <<>>, m), m)
        ELSE PushItem(popped, m)

\* the non-list branch without line 183
NonListLine_KeepFlag(st, line) ==
    LET closed == IF st.inList THEN PopFrames(st, -1) ELSE st
    IN  ScanState(Append(closed.result, line), closed.inList, closed.listStack)

\* the non-list branch that closes the frames from the outermost to the
\* innermost
NonListLine_OutermostFirst(st, line) ==
    LET n == Len(st.listStack)
        closers == [k \in 1..n |-> CloseTag(st.listStack[k].isOrdered)]
    IN  IF st.inList
        THEN ScanState(Append(st.result \o closers, line), FALSE, <<>>)
        ELSE ScanState(Append(st.result, line), st.inList, st.listStack)

\* lines 176-186
NonListLine(st, line) ==
    LET closed == IF st.inList
                  THEN [PopFrames(st, -1) EXCEPT !.inList = FALSE]
                  ELSE st
    IN  ScanState(Append(closed.result, line), closed.inList, closed.listStack)

\* one iteration of the for loop, lines 136-186
WrapLine(st, line) ==
    LET m == ListMatch(line)
        currentList == st.listStack[Len(st.listStack)]
    IN  IF m.ok
        THEN IF ~st.inList THEN StartNewList(st, m)
             ELSE IF m.level = currentList.level /\ m.isOrdered = currentList.isOrdered
                  THEN SameList(st, m)
             ELSE IF m.level > currentList.level THEN NestedList(st, m)
             ELSE CloseNested(st, m)
        ELSE NonListLine(st, line)

\* listStack.pop() that leaves the frame on the stack
Pop_Peek(stack) == stack

\* listStack.pop(), lines 164, 180 and 191: the stack after it
Pop(stack) == SubSeq(stack, 1, Len(stack) - 1)

\* one iteration of a pop loop, lines 164-165 (180-181, 191-192)
PopFrame(st) ==
    ScanState(Append(st.result, CloseTag(st.listStack[Len(st.listStack)].isOrdered)),
              st.inList,
              Pop(st.listStack))

\* a scan that returns without lines 189-193
CloseRemaining_Skipped(st) == st

\* lines 189-193
CloseRemaining(st) == PopFrames(st, -1)

RECURSIVE WrapLines(_, _)
WrapLines(st, ls) ==
    IF ls = <<>> THEN st ELSE WrapLines(WrapLine(st, Head(ls)), Tail(ls))

wrapListItems(text) ==
    Join(CloseRemaining(WrapLines(ScanInit, Split(text, <<NL>>))).result, <<NL>>)

parseLists(text) == wrapListItems(TagListItems(text))

(***************************************************************************)
(* parseLinks, parseImages                                                 *)
(***************************************************************************)
NoTarget == [ok |-> FALSE, end |-> 0, label |-> <<>>, url |-> <<>>, title |-> <<>>]

\* /\[([^\]]{n,})\]\(([^)]+)\)/ with the "[" at p (n = minLabel): the label
\* ends at the first "]", the url at the first ")"
PlainTarget(text, p, minLabel) ==
    LET b == StopAt(text, p + 1, {"]"})
        c == StopAt(text, b + 2, {")"})
    IN  IF /\ StartsAt(text, p, <<"[">>)
           /\ b - (p + 1) >= minLabel
           /\ StartsAt(text, b, <<"]","(">>)
           /\ c > b + 2
           /\ c <= Len(text)
        THEN [ok |-> TRUE, end |-> c + 1, label |-> Sub(text, p + 1, b - 1),
              url |-> Sub(text, b + 2, c - 1), title |-> <<>>]
        ELSE NoTarget

\* /\[([^\]]{n,})\]\(([^)]+)\s+"([^"]+)"\)/ with the "[" at p: ([^)]+) is
\* greedy, so the url ends at the last place x from which \s+"([^"]+)"\)
\* matches: white space up to a quote, a title up to the next quote, ")"
TitledTarget(text, p, minLabel) ==
    LET b == StopAt(text, p + 1, {"]"})
        u == b + 2
        c == StopAt(text, u, {")"})
        TitleStart(x) == RunEnd(text, x, WhiteSpace)
        TitleEnd(x) == StopAt(text, TitleStart(x) + 1, {QUOTE})
        splits == {x \in (u + 1)..c :
                      /\ TitleStart(x) > x
                      /\ StartsAt(text, TitleStart(x), <<QUOTE>>)
                      /\ TitleEnd(x) > TitleStart(x) + 1
                      /\ StartsAt(text, TitleEnd(x), <<QUOTE, ")">>)}
    IN  IF /\ StartsAt(text, p, <<"[">>)
           /\ b - (p + 1) >= minLabel
           /\ StartsAt(text, b, <<"]","(">>)
           /\ splits # {}
        THEN LET x == Max(splits)
             IN  [ok |-> TRUE, end |-> TitleEnd(x) + 2, label |-> Sub(text, p + 1, b - 1),
                  url |-> Sub(text, u, x - 1),
                  title |-> Sub(text, TitleStart(x) + 1, TitleEnd(x) - 1)]
        ELSE NoTarget

AnchorHtml(href, title, label) ==
    <<"<","a"," ","h","r","e","f","=",QUOTE>> \o href \o <<QUOTE>>
        \o (IF title = <<>> THEN <<>>
            ELSE <<" ","t","i","t","l","e","=",QUOTE>> \o title \o <<QUOTE>>)
        \o <<">">> \o label \o <<"<","/","a",">">>

\* /\[([^\]]+)\]\(([^)]+)\s+"([^"]+)"\)/ at p
TitledLinkMatch(text, p) ==
    LET t == TitledTarget(text, p, 1)
    IN  IF t.ok THEN Match(t.end, AnchorHtml(t.url, t.title, t.label)) ELSE NoMatch

\* /\[([^\]]+)\]\(([^)]+)\)/ at p
PlainLinkMatch(text, p) ==
    LET t == PlainTarget(text, p, 1)
    IN  IF t.ok THEN Match(t.end, AnchorHtml(t.url, <<>>, t.label)) ELSE NoMatch

\* /(https?:\/\/[^\s<]+)/ at p
AutoLinkMatch(text, p) ==
    LET q == IF StartsAt(text, p + 4, <<"s">>) THEN p + 5 ELSE p + 4
        r == StopAt(text, q + 3, WhiteSpace \cup {"<"})
    IN  IF /\ StartsAt(text, p, <<"h","t","t","p">>)
           /\ StartsAt(text, q, <<":","/","/">>)
           /\ r > q + 3
        THEN Match(r, AnchorHtml(Sub(text, p, r - 1), <<>>, Sub(text, p, r - 1)))
        ELSE NoMatch

\* the three rewrites of parseLinks, lines 205, 209 and 212
TitledLinks(text) == Rewrite(text, [p \in 1..Len(text) |-> TitledLinkMatch(text, p)], 1)
PlainLinks(text) == Rewrite(text, [p \in 1..Len(text) |-> PlainLinkMatch(text, p)], 1)
AutoLinks(text) == Rewrite(text, [p \in 1..Len(text) |-> AutoLinkMatch(text, p)], 1)

parseLinks(text) == AutoLinks(PlainLinks(TitledLinks(text)))

ImgHtml(src, alt, title) ==
    <<"<","i","m","g"," ","s","r","c","=",QUOTE>> \o src
        \o <<QUOTE," ","a","l","t","=",QUOTE>> \o alt \o <<QUOTE>>
        \o (IF title = <<>> THEN <<>>
            ELSE <<" ","t","i","t","l","e","=",QUOTE>> \o title \o <<QUOTE>>)
        \o <<">">>

\* /!\[([^\]]*)\]\(([^)]+)\s+"([^"]+)"\)/ at p
TitledImageMatch(text, p) ==
    LET t == TitledTarget(text, p + 1, 0)
    IN  IF StartsAt(text, p, <<"!">>) /\ t.ok
        THEN Match(t.end, ImgHtml(t.url, t.label, t.title)) ELSE NoMatch

\* /!\[([^\]]*)\]\(([^)]+)\)/ at p
PlainImageMatch(text, p) ==
    LET t == PlainTarget(text, p + 1, 0)
    IN  IF StartsAt(text, p, <<"!">>) /\ t.ok
        THEN Match(t.end, ImgHtml(t.url, t.label, <<>>)) ELSE NoMatch

parseImages(text) ==
    LET first == Rewrite(text, [p \in 1..Len(text) |-> TitledImageMatch(text, p)], 1)
    IN  Rewrite(first, [p \in 1..Len(first) |-> PlainImageMatch(first, p)], 1)

(***************************************************************************)
(* parseEmphasis                                                           *)
(***************************************************************************)
\* /DD([^c]+)DD/ at p, for a delimiter DD made of the character c: the
\* content is the non-empty run up to the next c, where DD must stand again
DelimitedMatch(text, p, delim, c, open, close) ==
    LET from == p + Len(delim)
        z == StopAt(text, from, {c})
    IN  IF StartsAt(text, p, delim) /\ z > from /\ StartsAt(text, z, delim)
        THEN Match(z + Len(delim), open \o Sub(text, from, z - 1) \o close)
        ELSE NoMatch

Delimited(text, delim, c, open, close) ==
    Rewrite(text, [p \in 1..Len(text) |-> DelimitedMatch(text, p, delim, c, open, close)], 1)

StrongOpen == <<"<","s","t","r","o","n","g",">">>
StrongClose == <<"<","/","s","t","r","o","n","g",">">>
EmOpen == <<"<","e","m",">">>
EmClose == <<"<","/","e","m",">">>
DelOpen == <<"<","d","e","l",">">>
DelClose == <<"<","/","d","e","l",">">>

\* lines 240-241
Bold(text) ==
    Delimited(Delimited(text, <<"*","*">>, "*", StrongOpen, StrongClose),
              <<"_","_">>, "_", StrongOpen, StrongClose)

\* lines 244-245
Italic(text) ==
    Delimited(Delimited(text, <<"*">>, "*", EmOpen, EmClose), <<"_">>, "_", EmOpen, EmClose)

\* line 248
Strikethrough(text) == Delimited(text, <<"~","~">>, "~", DelOpen, DelClose)

\* parseEmphasis with the italic rewrites of lines 244-245 before the bold ones
parseEmphasis_ItalicFirst(text) == Strikethrough(Bold(Italic(text)))

parseEmphasis(text) == Strikethrough(Italic(Bold(text)))

(***************************************************************************)
(* parseLineBreaks, parseParagraphs, isBlockElement                        *)
(***************************************************************************)
\* /  \n/ at p
HardBreakMatch(text, p) ==
    IF StartsAt(text, p, <<SP, SP, NL>>) THEN Match(p + 3, <<"<","b","r",">",NL>>) ELSE NoMatch

\* /\n{2,}/ at p
BlankRunMatch(text, p) ==
    LET r == RunEnd(text, p, {NL})
    IN  IF r - p >= 2 THEN Match(r, <<NL, NL>>) ELSE NoMatch

parseLineBreaks(text) ==
    LET first == Rewrite(text, [p \in 1..Len(text) |-> HardBreakMatch(text, p)], 1)
    IN  Rewrite(first, [p \in 1..Len(first) |-> BlankRunMatch(first, p)], 1)

blockTags ==
    { <<"<","h","1">>, <<"<","h","2">>, <<"<","h","3">>,
      <<"<","h","4">>, <<"<","h","5">>, <<"<","h","6">>,
      <<"<","p",">">>, <<"<","d","i","v">>,
      <<"<","b","l","o","c","k","q","u","o","t","e">>,
      <<"<","p","r","e">>, <<"<","u","l">>, <<"<","o","l">>, <<"<","l","i">>,
      <<"<","t","a","b","l","e">>, <<"<","f","o","r","m">>,
      <<"<","f","i","e","l","d","s","e","t">>,
      <<"<","a","d","d","r","e","s","s">> }

\* isBlockElement that finds no block tag
isBlockElement_Never(text) == FALSE

isBlockElement(text) == \E tag \in blockTags : StartsWith(text, tag)

\* the body of the for loop of parseParagraphs, lines 278-286
RECURSIVE WrapBlocks(_)
WrapBlocks(blocks) ==
    IF blocks = <<>> THEN <<>>
    ELSE LET line == Trim(Head(blocks))
         IN  (IF line = <<>> THEN <<>>
              ELSE IF isBlockElement(line) THEN <<line>>
              ELSE << <<"<","p",">">> \o line \o <<"<","/","p",">">> >>)
             \o WrapBlocks(Tail(blocks))

\* parseParagraphs with a split at every line break
parseParagraphs_SplitLines(text) == Join(WrapBlocks(Split(text, <<NL>>)), <<NL, NL>>)

parseParagraphs(text) == Join(WrapBlocks(Split(text, <<NL, NL>>)), <<NL, NL>>)

(***************************************************************************)
(* parseTables, createTable                                                *)
(***************************************************************************)
\* line 340: line.startsWith('|') && line.endsWith('|')
IsTableRow(line) == StartsWith(line, <<"|">>) /\ EndsWith(line, <<"|">>)

\* line 348: line.slice(1, -1).split('|').map(cell => cell.trim())
Cells(line) ==
    LET parts == Split(Sub(line, 2, Len(line) - 1), <<"|">>)
    IN  [k \in 1..Len(parts) |-> Trim(parts[k])]

\* line 352: /^\|[\s\-\|]*\|$/ on a trimmed line
SeparatorMatch(line) ==
    /\ Len(line) >= 2
    /\ line[1] = "|"
    /\ line[Len(line)] = "|"
    /\ \A k \in 2..(Len(line) - 1) : line[k] \in WhiteSpace \cup {"-", "|"}

\* lines 387-389 and 397-399: one element per cell, each on a line
CellElements(cells, tag) ==
    Join([k \in 1..Len(cells) |->
             <<"<">> \o tag \o <<">">> \o cells[k] \o <<"<","/">> \o tag \o <<">", NL>>],
         <<>>)

\* lines 395-401
BodyRow(cells) == <<"<","t","r",">",NL>> \o CellElements(cells, <<"t","d">>) \o <<"<","/","t","r",">",NL>>

\* lines 380-407
createTable(rows) ==
    IF Len(rows) = 0 THEN <<>>
    ELSE <<"<","t","a","b","l","e",">",NL>>
             \o <<"<","t","h","e","a","d",">",NL,"<","t","r",">",NL>>
             \o CellElements(rows[1], <<"t","h">>)
             \o <<"<","/","t","r",">",NL,"<","/","t","h","e","a","d",">",NL>>
             \o (IF Len(rows) > 1
                 THEN <<"<","t","b","o","d","y",">",NL>>
                          \o Join([k \in 1..(Len(rows) - 1) |-> BodyRow(rows[k + 1])], <<>>)
                          \o <<"<","/","t","b","o","d","y",">",NL>>
                 ELSE <<>>)
             \o <<"<","/","t","a","b","l","e",">">>

\* The locals of parseTables that the loop updates, lines 333-335.
TableState(r, t, rows) == [result |-> r, inTable |-> t, tableRows |-> rows]

\* line 359 (369): the table of the rows collected so far is pushed
PushTable(st) == Append(st.result, createTable(st.tableRows))

\* lines 341-355: the line at k is a table row; next is the index of the
\* line the loop goes on with
TableRowLine(st, ls, k) ==
    LET rows == IF st.inTable THEN st.tableRows ELSE <<>>
    IN  [st |-> TableState(st.result, TRUE, Append(rows, Cells(Trim(ls[k])))),
         next |-> IF k + 1 <= Len(ls) /\ SeparatorMatch(Trim(ls[k + 1])) THEN k + 2 ELSE k + 1]

\* lines 357-363
OtherLine(st, line) ==
    TableState(Append(IF st.inTable THEN PushTable(st) ELSE st.result, line), FALSE, <<>>)

\* the for loop of lines 337-365, from the line at k on
RECURSIVE TableLoop(_, _, _)
TableLoop(st, ls, k) ==
    IF k > Len(ls) THEN st
    ELSE IF IsTableRow(Trim(ls[k]))
         THEN TableLoop(TableRowLine(st, ls, k).st, ls, TableRowLine(st, ls, k).next)
         ELSE TableLoop(OtherLine(st, Trim(ls[k])), ls, k + 1)

\* lines 331-373
parseTables(text) ==
    LET st == TableLoop(TableState(<<>>, FALSE, <<>>), Split(text, <<NL>>), 1)
    IN  Join(IF st.inTable THEN PushTable(st) ELSE st.result, <<NL>>)

(***************************************************************************)
(* parseMarkdown                                                           *)
(***************************************************************************)
\* A JavaScript value handed to parseMarkdown: a string, or something else.
StringValue(text) == [type |-> "string", value |-> text]
NonStrings == {[type |-> t, value |-> <<>>] : t \in {"undefined", "null", "number"}}

\* the guard of line 13 without !markdown
Rejected_TypeOnly(input) == input.type # "string"

\* line 13: !markdown || typeof markdown !== 'string'
Rejected(input) == input.type # "string" \/ input.value = <<>>

\* the passes in the order of lines 20-29
Passes ==
    <<"parseCodeBlocks", "parseInlineCode", "parseHeaders", "parseBlockquotes",
      "parseLists", "parseLinks", "parseImages", "parseEmphasis", "parseLineBreaks",
      "parseParagraphs">>

ApplyPass(name, text) ==
    CASE name = "parseCodeBlocks"  -> parseCodeBlocks(text)
      [] name = "parseInlineCode"  -> parseInlineCode(text)
      [] name = "parseHeaders"     -> parseHeaders(text)
      [] name = "parseBlockquotes" -> parseBlockquotes(text)
      [] name = "parseLists"       -> parseLists(text)
      [] name = "parseLinks"       -> parseLinks(text)
      [] name = "parseImages"      -> parseImages(text)
      [] name = "parseEmphasis"    -> parseEmphasis(text)
      [] name = "parseLineBreaks"  -> parseLineBreaks(text)
      [] name = "parseParagraphs"  -> parseParagraphs(text)

\* the position after pass k: the next pass, or the return statement
After(k) == IF k < Len(Passes) THEN Passes[k + 1] ELSE "return"

RECURSIVE ApplyPasses(_, _)
ApplyPasses(k, text) ==
    IF k > Len(Passes) THEN text ELSE ApplyPasses(k + 1, ApplyPass(Passes[k], text))

parseMarkdown(input) ==
    IF Rejected(input) THEN <<>> ELSE Trim(ApplyPasses(1, input.value))

(***************************************************************************)
(* Bounds and inputs                                                       *)
(***************************************************************************)
\* the documents of Spec have at most MaxDocLines lines of DocLines
MaxDocLines == 3

DocLines ==
    { <<>>,
      <<"a">>,
      Fence,
      <<"#"," ","h">>,
      <<"*","a","*">>,
      <<"-"," ","a">>,
      <<"#"," ","a","_","b","_","c">>,
      <<BackTick,"*","*","a","*","*",BackTick>>,
      <<"!","[","a","]","(","u",")">>,
      <<"[","a","]","(","h","t","t","p",":","/","/","x",")">> }

RECURSIVE LinesUpTo(_, _)
LinesUpTo(catalogue, n) ==
    IF n = 0 THEN {<<>>}
    ELSE LET shorter == LinesUpTo(catalogue, n - 1)
         IN  shorter \cup {Append(ls, l) : ls \in {x \in shorter : Len(x) = n - 1}, l \in catalogue}

Documents == {Join(ls, <<NL>>) : ls \in LinesUpTo(DocLines, MaxDocLines)}

\* the texts of SpecLists have at most MaxListLines lines: items at the
\* levels 0..MaxLevel (two spaces a level) with either marker, an item
\* indented by one space, a line that is no item, and an empty line; and
\* there is the text of the specification with items at the levels 0,1,1,0
MaxListLines == 3
MaxLevel == 2

Spaces(n) == [k \in 1..n |-> SP]

ListLines ==
    {Spaces(2 * l) \o marker \o <<"a">> :
        l \in 0..MaxLevel, marker \in {<<"-"," ">>, <<"1","."," ">>}}
    \cup {<<" ","-"," ","a">>, <<"x">>, <<>>}

Levels0110 ==
    Join(<< <<"-"," ","a">>, <<" "," ","-"," ","a">>,
            <<" "," ","-"," ","a">>, <<"-"," ","a">> >>, <<NL>>)

ListDocuments ==
    {Join(ls, <<NL>>) : ls \in LinesUpTo(ListLines, MaxListLines)} \cup {Levels0110}

\* the texts of SpecListsAgain: those of SpecLists, and an item whose content
\* is a line as the per-line rewrite of parseLists writes it
ItemOfTaggedItem == <<"-", SP>> \o TaggedItem(0, FALSE, <<"a">>)

ListTextsAgain == ListDocuments \cup {ItemOfTaggedItem}

\* the texts of SpecTables: at most MaxTableLines lines of TableLines: two
\* rows of cells, a separator row, a row of empty cells, a padded row and a
\* line that is no row
MaxTableLines == 3

TableLines ==
    { <<"|","a","|","b","|">>, <<"|","c","|","d","|">>, <<"|","-","|","-","|">>,
      <<"|",SP,"|",SP,"|">>, <<SP,"|",SP,"a","|","b",SP,"|",SP>>, <<"x">> }

TableTexts == {Join(ls, <<NL>>) : ls \in LinesUpTo(TableLines, MaxTableLines)}

\* the heading lines of SpecHeaders: 1..MaxHashes "#", 1..MaxSpaces spaces
\* and a content of at most MaxContentLen characters of HeaderChars that
\* starts with no space, or one of the two contents of the specification
MaxHashes == 7
MaxSpaces == 2
MaxContentLen == 3

HeaderChars == {"A", "b", "_", "-", "!", " "}

RECURSIVE Words(_, _)
Words(alphabet, n) ==
    IF n = 0 THEN {<<>>}
    ELSE LET shorter == Words(alphabet, n - 1)
         IN  shorter \cup {Append(w, c) : w \in {x \in shorter : Len(x) = n - 1}, c \in alphabet}

HelloWorld == <<"H","e","l","l","o",","," ","W","o","r","l","d","!">>
HelloBang == <<"H","e","l","l","o"," ","!">>

HeaderContents ==
    {w \in Words(HeaderChars, MaxContentLen) : w # <<>> /\ w[1] # SP}
        \cup {HelloWorld, HelloBang}

Hashes(n) == [k \in 1..n |-> "#"]

HeaderLines ==
    {Hashes(n) \o Spaces(k) \o c :
        n \in 1..MaxHashes, k \in 1..MaxSpaces, c \in HeaderContents}

Inputs == {StringValue(d) : d \in Documents} \cup NonStrings

\* the documents of SpecTerm have at most MaxTermLines lines of TermLines:
\* a fence, an unmatched bracket, a stray marker, items at the levels 0, 1
\* and 2, and a line that is no item
MaxTermLines == 3

TermLines ==
    { Fence,
      <<"[","a","]","(">>,
      <<"*","a">>,
      <<"-"," ","a">>,
      <<" "," ","1","."," ","a">>,
      <<" "," "," "," ","-"," ","a">>,
      <<"x">> }

TermDocuments == {Join(ls, <<NL>>) : ls \in LinesUpTo(TermLines, MaxTermLines)}

\* the texts of SpecPlain: at most MaxPlainLen characters of PlainChars, which
\* spell no markdown marker but ">" at the start of a line
MaxPlainLen == 4

PlainChars == {"a", SP, NL, "<", "p", ">"}

PlainTexts == Words(PlainChars, MaxPlainLen)

\* the texts of SpecEmphasis: at most MaxEmphasisLen characters of
\* EmphasisChars, and the text of the specification for the precedence
MaxEmphasisLen == 6

EmphasisChars == {"*", "_", "~", "a", NL}

BoldThenItalic == <<"*","*","a","*","*"," ","*","b","*">>

EmphasisTexts == Words(EmphasisChars, MaxEmphasisLen) \cup {BoldThenItalic}

\* the texts of SpecParagraphs: at most MaxBlocks blocks with a blank line
\* between them. The first block is text behind an opening tag of
\* ParagraphTagNames, with or without an attribute, or text without a tag;
\* the blocks after it come from FollowingBlocks.
MaxBlocks == 2

ParagraphTagNames ==
    { <<"h","1">>, <<"h","2">>, <<"h","3">>, <<"h","4">>,
      <<"h","5">>, <<"h","6">>, <<"p">>, <<"d","i","v">>,
      <<"b","l","o","c","k","q","u","o","t","e">>, <<"p","r","e">>,
      <<"u","l">>, <<"o","l">>, <<"l","i">>,
      <<"t","a","b","l","e">>, <<"f","o","r","m">>,
      <<"f","i","e","l","d","s","e","t">>,
      <<"a","d","d","r","e","s","s">>, <<"l","i","n","k">>,
      <<"h","e","a","d","e","r">>, <<"s","p","a","n">> }

IdAttr == <<" ","i","d","=",QUOTE,"a",QUOTE>>

TagOpener(name, attr) == <<"<">> \o name \o attr \o <<">">>

ParagraphBlocks ==
    {TagOpener(n, a) \o <<"x">> : n \in ParagraphTagNames, a \in {<<>>, IdAttr}}
        \cup {<<"x">>, <<SP, "x", SP>>, <<>>}

FollowingBlocks ==
    { <<"x">>, <<>>,
      TagOpener(<<"d","i","v">>, <<>>) \o <<"x">>,
      TagOpener(<<"p">>, IdAttr) \o <<"x">>,
      TagOpener(<<"l","i","n","k">>, <<>>) \o <<"x">> }

RECURSIVE BlocksAfter(_)
BlocksAfter(n) ==
    IF n = 0 THEN {<<>>}
    ELSE LET shorter == BlocksAfter(n - 1)
         IN  shorter \cup {Append(bs, b) : bs \in {x \in shorter : Len(x) = n - 1},
                                           b \in FollowingBlocks}

ParagraphTexts ==
    {Join(<<b>> \o bs, <<NL, NL>>) : b \in ParagraphBlocks, bs \in BlocksAfter(MaxBlocks - 1)}

\* the texts of SpecCode: a closed fenced block, with or without the language
\* token js, whose body has at most MaxBodyLines lines of BodyLines (the five
\* characters that escapeHtml replaces, a line that ends in a fence, a line
\* of text); after it, or not, one of FollowingFenced; and at the end, or
\* not, a fence that nothing closes.
MaxBodyLines == 2

Specials == <<"&", "<", ">", QUOTE, "'">>

BodyLines == {Specials, <<"a">> \o Fence, <<"a">>}

RECURSIVE Bodies(_)
Bodies(n) ==
    IF n = 1 THEN {<<l>> : l \in BodyLines}
    ELSE LET shorter == Bodies(n - 1)
         IN  shorter \cup {Append(b, l) : b \in {x \in shorter : Len(x) = n - 1},
                                          l \in BodyLines}

FencedBlock(language, body) == <<Fence \o language>> \o body \o <<Fence>>

FencedBlocks ==
    {FencedBlock(t, b) : t \in {<<>>, <<"j","s">>}, b \in Bodies(MaxBodyLines)}

FollowingFenced ==
    {<<>>, FencedBlock(<<>>, <<Specials>>), FencedBlock(<<"j","s">>, <<<<"<">>>>)}

CodeTexts ==
    {Join(b \o f \o u, <<NL>>) : b \in FencedBlocks, f \in FollowingFenced,
                                u \in {<<>>, <<Fence>>}}

\* wrapListItems is not running
ScanIdle ==
    /\ lines = <<>>
    /\ i = 0
    /\ result = <<>>
    /\ inList = FALSE
    /\ listStack = <<>>

(***************************************************************************)
(* scripts.js: the typing animation                                        *)
(***************************************************************************)
\* lines 1-5
profissoes ==
    <<
        <<"S", "o", "f", "t", "w", "a", "r", "e", SP, "D", "e", "v", "e",
          "l", "o", "p", "e", "r">>,
        <<"M", "a", "c", "h", "i", "n", "e", SP, "L", "e", "a", "r", "n",
          "i", "n", "g", SP, "E", "n", "g", "i", "n", "e", "e", "r">>,
        <<"C", "y", "b", "e", "r", "s", "e", "c", "u", "r", "i", "t", "y",
          SP, "S", "t", "u", "d", "e", "n", "t">>
    >>

Blink == "blink-caret .75s step-end infinite"

Callbacks == {"typeProfissao", "eraseProfissao"}

NoTimers == [c \in Callbacks |-> 0]

\* setTimeout(c, delay): one more pending call of c
setTimeout(tm, c) == [tm EXCEPT ![c] = @ + 1]

\* the timer of c has run
Fired(tm, c) == [tm EXCEPT ![c] = @ - 1]

\* profissoes[profissaoIndex]
Profissao == profissoes[profissaoIndex + 1]

\* s.charAt(n), n counted from 0: the empty string past the end
charAt(s, n) == IF n < Len(s) THEN <<s[n + 1]>> ELSE <<>>

\* s.substring(0, n): a negative n counts as 0, an n past the end as the end
substring_KeepLast(s, n) == SubSeq(s, 1, IF n + 1 > Len(s) THEN Len(s) ELSE n + 1)

substring(s, n) ==
    IF n < 0 THEN <<>> ELSE SubSeq(s, 1, IF n > Len(s) THEN Len(s) ELSE n)

\* lines 7-10, in a document that has neither element and before any event
TypingIdle ==
    /\ index = 0
    /\ profissaoIndex = 0
    /\ isErasing = FALSE
    /\ cursorAnimation = "null"
    /\ innerHTML = <<>>
    /\ animation = ""
    /\ timers = NoTimers
    /\ elements = {}

\* lines 47-62.  The handle is "pending" while its timer waits and "ran"
\* once the callback has run; clearTimeout of a handle that ran does nothing,
\* and setTimeout replaces the handle by a pending one.
startCursorAnimation ==
    IF "cursor" \notin elements
    THEN UNCHANGED <<animation, cursorAnimation>>
    ELSE /\ animation' = Blink
         /\ cursorAnimation' = "pending"

\* lines 16-29, tm being the timers left when the function is entered
typeProfissao(tm) ==
    IF "profissao" \notin elements
    THEN /\ timers' = tm
         /\ UNCHANGED <<index, profissaoIndex, isErasing, cursorAnimation,
                        innerHTML, animation>>
    ELSE IF ~isErasing /\ index < Len(Profissao)
    THEN /\ innerHTML' = innerHTML \o charAt(Profissao, index)
         /\ index' = index + 1
         /\ startCursorAnimation
         /\ timers' = setTimeout(tm, "typeProfissao")
         /\ UNCHANGED <<profissaoIndex, isErasing>>
    ELSE IF ~isErasing
    THEN /\ isErasing' = TRUE
         /\ timers' = setTimeout(tm, "eraseProfissao")
         /\ UNCHANGED <<index, profissaoIndex, cursorAnimation, innerHTML,
                        animation>>
    ELSE /\ timers' = tm
         /\ UNCHANGED <<index, profissaoIndex, isErasing, cursorAnimation,
                        innerHTML, animation>>

\* lines 31-45
eraseProfissao(tm) ==
    IF "profissao" \notin elements
    THEN /\ timers' = tm
         /\ UNCHANGED <<index, profissaoIndex, isErasing, cursorAnimation,
                        innerHTML, animation>>
    ELSE IF isErasing /\ index > 0
    THEN /\ innerHTML' = substring(Profissao, index - 1)
         /\ index' = index - 1
         /\ startCursorAnimation
         /\ timers' = setTimeout(tm, "eraseProfissao")
         /\ UNCHANGED <<profissaoIndex, isErasing>>
    ELSE IF isErasing
    THEN /\ isErasing' = FALSE
         /\ profissaoIndex' = (profissaoIndex + 1) % Len(profissoes)
         /\ timers' = setTimeout(tm, "typeProfissao")
         /\ UNCHANGED <<index, cursorAnimation, innerHTML, animation>>
    ELSE /\ timers' = tm
         /\ UNCHANGED <<index, profissaoIndex, isErasing, cursorAnimation,
                        innerHTML, animation>>

parsing == <<markdown, html, lines, i, result, inList, listStack>>

\* the page as served: the script has run its top level (lines 1-14), the
\* document has some of the two elements, #profissao without content
InitTyping ==
    /\ pc = "loading"
    /\ markdown = <<>>
    /\ html = <<>>
    /\ ScanIdle
    /\ index = 0
    /\ profissaoIndex = 0
    /\ isErasing = FALSE
    /\ cursorAnimation = "null"
    /\ innerHTML = <<>>
    /\ animation \in {"", Blink}
    /\ timers = NoTimers
    /\ elements \in SUBSET {"profissao", "cursor"}

\* lines 12-14
DOMContentLoaded ==
    /\ pc = "loading"
    /\ pc' = "eventLoop"
    /\ typeProfissao(timers)
    /\ UNCHANGED <<parsing, elements>>

\* the timer set at line 24 or 43 runs typeProfissao
RunTypeProfissao ==
    /\ pc = "eventLoop"
    /\ timers["typeProfissao"] > 0
    /\ typeProfissao(Fired(timers, "typeProfissao"))
    /\ UNCHANGED <<pc, parsing, elements>>

\* the timer set at line 27 or 39 runs eraseProfissao
RunEraseProfissao ==
    /\ pc = "eventLoop"
    /\ timers["eraseProfissao"] > 0
    /\ eraseProfissao(Fired(timers, "eraseProfissao"))
    /\ UNCHANGED <<pc, parsing, elements>>

\* lines 57-61: the timer of the cursor runs; "none" and the reflow are
\* inside the callback, so the style is the blinking one when it returns
RestartCursor ==
    /\ pc = "eventLoop"
    /\ cursorAnimation = "pending"
    /\ cursorAnimation' = "ran"
    /\ animation' = Blink
    /\ UNCHANGED <<pc, parsing, elements, index, profissaoIndex, isErasing,
                   innerHTML, timers>>

NextTyping ==
    \/ DOMContentLoaded
    \/ RunTypeProfissao
    \/ RunEraseProfissao
    \/ RestartCursor

\* the event loop runs every timer that is due
SpecTyping ==
    /\ InitTyping
    /\ [][NextTyping]_vars
    /\ WF_vars(DOMContentLoaded)
    /\ WF_vars(RunTypeProfissao)
    /\ WF_vars(RunEraseProfissao)
    /\ WF_vars(RestartCursor)

(***************************************************************************)
(* Spec: one call of parseMarkdown, a step per pass                        *)
(***************************************************************************)

Init ==
    /\ pc = "parseMarkdown"
    /\ markdown \in Inputs
    /\ html = <<>>
    /\ ScanIdle
    /\ TypingIdle

\* lines 13-15
ReturnEmpty ==
    /\ pc = "parseMarkdown"
    /\ Rejected(markdown)
    /\ html' = <<>>
    /\ pc' = "done"
    /\ UNCHANGED <<markdown, lines, i, result, inList, listStack, typing>>

\* line 17
Start ==
    /\ pc = "parseMarkdown"
    /\ ~Rejected(markdown)
    /\ html' = markdown.value
    /\ pc' = Passes[1]
    /\ UNCHANGED <<markdown, lines, i, result, inList, listStack, typing>>

\* lines 20-29: html = pass(html)
RunPass(k) ==
    /\ pc = Passes[k]
    /\ html' = ApplyPass(Passes[k], html)
    /\ pc' = After(k)
    /\ UNCHANGED <<markdown, lines, i, result, inList, listStack, typing>>

\* line 31
Return ==
    /\ pc = "return"
    /\ html' = Trim(html)
    /\ pc' = "done"
    /\ UNCHANGED <<markdown, lines, i, result, inList, listStack, typing>>

CodeBlocksPass == RunPass(1)
InlineCodePass == RunPass(2)
HeadersPass == RunPass(3)
BlockquotesPass == RunPass(4)
ListsPass == RunPass(5)
LinksPass == RunPass(6)
ImagesPass == RunPass(7)
EmphasisPass == RunPass(8)
LineBreaksPass == RunPass(9)
ParagraphsPass == RunPass(10)

Next ==
    \/ ReturnEmpty
    \/ Start
    \/ CodeBlocksPass
    \/ InlineCodePass
    \/ HeadersPass
    \/ BlockquotesPass
    \/ ListsPass
    \/ LinksPass
    \/ ImagesPass
    \/ EmphasisPass
    \/ LineBreaksPass
    \/ ParagraphsPass
    \/ Return

Spec == Init /\ [][Next]_vars

(***************************************************************************)
(* SpecLists: one call of parseLists, a step per line of wrapListItems     *)
(***************************************************************************)
InitLists ==
    /\ pc = "parseLists"
    /\ markdown \in {StringValue(d) : d \in ListDocuments}
    /\ html = <<>>
    /\ ScanIdle
    /\ TypingIdle

Scan == ScanState(result, inList, listStack)

SetScan(st) ==
    /\ result' = st.result
    /\ inList' = st.inList
    /\ listStack' = st.listStack

\* lines 107-116, the call of line 119 and lines 130-133
TagItems ==
    /\ pc = "parseLists"
    /\ html' = TagListItems(markdown.value)
    /\ lines' = Split(html', <<NL>>)
    /\ i' = 1
    /\ SetScan(ScanInit)
    /\ pc' = "wrapListItems"
    /\ UNCHANGED <<markdown, typing>>

\* the loop of line 135 stands at a line
AtLine == pc = "wrapListItems" /\ i <= Len(lines)
listMatch == ListMatch(lines[i])
currentList == listStack[Len(listStack)]

NextLine ==
    /\ i' = i + 1
    /\ UNCHANGED <<pc, markdown, html, lines, typing>>

\* lines 144-149
StartNewListStep ==
    /\ AtLine
    /\ listMatch.ok
    /\ ~inList
    /\ SetScan(StartNewList(Scan, listMatch))
    /\ NextLine

\* lines 153-155
SameListStep ==
    /\ AtLine
    /\ listMatch.ok
    /\ inList
    /\ listMatch.level = currentList.level
    /\ listMatch.isOrdered = currentList.isOrdered
    /\ SetScan(SameList(Scan, listMatch))
    /\ NextLine

\* lines 156-160
NestedListStep ==
    /\ AtLine
    /\ listMatch.ok
    /\ inList
    /\ ~(listMatch.level = currentList.level /\ listMatch.isOrdered = currentList.isOrdered)
    /\ listMatch.level > currentList.level
    /\ SetScan(NestedList(Scan, listMatch))
    /\ NextLine

\* lines 161-174
CloseNestedStep ==
    /\ AtLine
    /\ listMatch.ok
    /\ inList
    /\ ~(listMatch.level = currentList.level /\ listMatch.isOrdered = currentList.isOrdered)
    /\ ~(listMatch.level > currentList.level)
    /\ SetScan(CloseNested(Scan, listMatch))
    /\ NextLine

\* lines 176-186
NonListLineStep ==
    /\ AtLine
    /\ ~listMatch.ok
    /\ SetScan(NonListLine(Scan, lines[i]))
    /\ NextLine

\* lines 189-195 and the return of line 121
FinishLists ==
    /\ pc = "wrapListItems"
    /\ i > Len(lines)
    /\ SetScan(CloseRemaining(Scan))
    /\ html' = Join(result', <<NL>>)
    /\ pc' = "done"
    /\ UNCHANGED <<markdown, lines, i, typing>>

NextLists ==
    \/ TagItems
    \/ StartNewListStep
    \/ SameListStep
    \/ NestedListStep
    \/ CloseNestedStep
    \/ NonListLineStep
    \/ FinishLists

SpecLists == InitLists /\ [][NextLists]_vars

(***************************************************************************)
(* SpecHeaders: parseHeaders applied to one heading line                   *)
(***************************************************************************)
InitHeaders ==
    /\ pc = "parseHeaders"
    /\ markdown \in {StringValue(l) : l \in HeaderLines}
    /\ html = <<>>
    /\ ScanIdle
    /\ TypingIdle

\* lines 70-76
CallParseHeaders ==
    /\ pc = "parseHeaders"
    /\ html' = parseHeaders(markdown.value)
    /\ pc' = "done"
    /\ UNCHANGED <<markdown, lines, i, result, inList, listStack, typing>>

NextHeaders == CallParseHeaders

SpecHeaders == InitHeaders /\ [][NextHeaders]_vars

(***************************************************************************)
(* SpecTerm: one call of parseMarkdown, with parseLists a step per line    *)
(* and a step per iteration of the pop loops of wrapListItems              *)
(***************************************************************************)
InitTerm ==
    /\ pc = "parseMarkdown"
    /\ markdown \in {StringValue(d) : d \in TermDocuments}
    /\ html = <<>>
    /\ ScanIdle
    /\ TypingIdle

\* line 24: lines 107-116, the call of line 119 and lines 130-133
TagItemsOfHtml ==
    /\ pc = "parseLists"
    /\ html' = TagListItems(html)
    /\ lines' = Split(html', <<NL>>)
    /\ i' = 1
    /\ SetScan(ScanInit)
    /\ pc' = "wrapListItems"
    /\ UNCHANGED <<markdown, typing>>

\* the condition of the loop of line 163
MustPop == Len(listStack) > 0 /\ currentList.level >= listMatch.level

\* line 161: neither the same list nor a nested one
EnterCloseNested ==
    /\ AtLine
    /\ listMatch.ok
    /\ inList
    /\ ~(listMatch.level = currentList.level /\ listMatch.isOrdered = currentList.isOrdered)
    /\ ~(listMatch.level > currentList.level)
    /\ pc' = "closeNested"
    /\ UNCHANGED <<markdown, html, lines, i, result, inList, listStack, typing>>

\* lines 163-166
PopNestedFrame ==
    /\ pc = "closeNested"
    /\ MustPop
    /\ SetScan(PopFrame(Scan))
    /\ UNCHANGED <<pc, markdown, html, lines, i, typing>>

\* lines 168-173
ExitCloseNested ==
    /\ pc = "closeNested"
    /\ ~MustPop
    /\ SetScan(IF Len(listStack) = 0
               THEN PushItem(PushOpen(Scan, <<>>, listMatch), listMatch)
               ELSE PushItem(Scan, listMatch))
    /\ pc' = "wrapListItems"
    /\ i' = i + 1
    /\ UNCHANGED <<markdown, html, lines, typing>>

\* lines 176-186 when no list is open
PlainLineStep ==
    /\ AtLine
    /\ ~listMatch.ok
    /\ ~inList
    /\ SetScan(NonListLine(Scan, lines[i]))
    /\ NextLine

\* line 177: a list is open
EnterCloseAll ==
    /\ AtLine
    /\ ~listMatch.ok
    /\ inList
    /\ pc' = "closeAll"
    /\ UNCHANGED <<markdown, html, lines, i, result, inList, listStack, typing>>

\* lines 179-182
PopOpenFrame ==
    /\ pc = "closeAll"
    /\ Len(listStack) > 0
    /\ SetScan(PopFrame(Scan))
    /\ UNCHANGED <<pc, markdown, html, lines, i, typing>>

\* lines 183-185
ExitCloseAll ==
    /\ pc = "closeAll"
    /\ Len(listStack) = 0
    /\ inList' = FALSE
    /\ result' = Append(result, lines[i])
    /\ pc' = "wrapListItems"
    /\ i' = i + 1
    /\ UNCHANGED <<markdown, html, lines, listStack, typing>>

\* line 135: the for loop ends
EnterCloseRemaining ==
    /\ pc = "wrapListItems"
    /\ i > Len(lines)
    /\ pc' = "closeRemaining"
    /\ UNCHANGED <<markdown, html, lines, i, result, inList, listStack, typing>>

\* lines 190-193
PopRemainingFrame ==
    /\ pc = "closeRemaining"
    /\ Len(listStack) > 0
    /\ SetScan(PopFrame(Scan))
    /\ UNCHANGED <<pc, markdown, html, lines, i, typing>>

\* line 195, the return of line 121 and the assignment of line 24
ReturnLists ==
    /\ pc = "closeRemaining"
    /\ Len(listStack) = 0
    /\ html' = Join(result, <<NL>>)
    /\ pc' = After(5)
    /\ UNCHANGED <<markdown, lines, i, result, inList, listStack, typing>>

NextTerm ==
    \/ ReturnEmpty
    \/ Start
    \/ CodeBlocksPass
    \/ InlineCodePass
    \/ HeadersPass
    \/ BlockquotesPass
    \/ TagItemsOfHtml
    \/ StartNewListStep
    \/ SameListStep
    \/ NestedListStep
    \/ EnterCloseNested
    \/ PopNestedFrame
    \/ ExitCloseNested
    \/ PlainLineStep
    \/ EnterCloseAll
    \/ PopOpenFrame
    \/ ExitCloseAll
    \/ EnterCloseRemaining
    \/ PopRemainingFrame
    \/ ReturnLists
    \/ LinksPass
    \/ ImagesPass
    \/ EmphasisPass
    \/ LineBreaksPass
    \/ ParagraphsPass
    \/ Return

\* the call runs on: parseMarkdown is synchronous, nothing suspends it.
\* This is weak fairness of NextTerm, WF_vars(NextTerm), written out as
\* []<>~ENABLED <<NextTerm>>_vars \/ []<><<NextTerm>>_vars: a step of NextTerm
\* is possible exactly while the call has not returned, pc # "done".
RunsOn == []<>(pc = "done") \/ []<><<NextTerm>>_vars

SpecTerm == InitTerm /\ [][NextTerm]_vars /\ RunsOn

(***************************************************************************)
(* SpecPlain: one call of parseMarkdown on a text of PlainTexts            *)
(***************************************************************************)
InitPlain ==
    /\ pc = "parseMarkdown"
    /\ markdown \in {StringValue(t) : t \in PlainTexts}
    /\ html = <<>>
    /\ ScanIdle
    /\ TypingIdle

SpecPlain == InitPlain /\ [][Next]_vars

(***************************************************************************)
(* SpecEmphasis: parseEmphasis applied to one text                         *)
(***************************************************************************)
InitEmphasis ==
    /\ pc = "parseEmphasis"
    /\ markdown \in {StringValue(t) : t \in EmphasisTexts}
    /\ html = <<>>
    /\ ScanIdle
    /\ TypingIdle

\* lines 238-251
CallParseEmphasis ==
    /\ pc = "parseEmphasis"
    /\ html' = parseEmphasis(markdown.value)
    /\ pc' = "done"
    /\ UNCHANGED <<markdown, lines, i, result, inList, listStack, typing>>

NextEmphasis == CallParseEmphasis

SpecEmphasis == InitEmphasis /\ [][NextEmphasis]_vars

(***************************************************************************)
(* SpecParagraphs: parseParagraphs applied to one text                     *)
(***************************************************************************)
InitParagraphs ==
    /\ pc = "parseParagraphs"
    /\ markdown \in {StringValue(t) : t \in ParagraphTexts}
    /\ html = <<>>
    /\ ScanIdle
    /\ TypingIdle

\* lines 273-290
CallParseParagraphs ==
    /\ pc = "parseParagraphs"
    /\ html' = parseParagraphs(markdown.value)
    /\ pc' = "done"
    /\ UNCHANGED <<markdown, lines, i, result, inList, listStack, typing>>

NextParagraphs == CallParseParagraphs

SpecParagraphs == InitParagraphs /\ [][NextParagraphs]_vars

(***************************************************************************)
(* SpecCode: parseCodeBlocks applied to one text                           *)
(***************************************************************************)
InitCode ==
    /\ pc = "parseCodeBlocks"
    /\ markdown \in {StringValue(t) : t \in CodeTexts}
    /\ html = <<>>
    /\ ScanIdle
    /\ TypingIdle

\* lines 39-54
CallParseCodeBlocks ==
    /\ pc = "parseCodeBlocks"
    /\ html' = parseCodeBlocks(markdown.value)
    /\ pc' = "done"
    /\ UNCHANGED <<markdown, lines, i, result, inList, listStack, typing>>

NextCode == CallParseCodeBlocks

SpecCode == InitCode /\ [][NextCode]_vars

(***************************************************************************)
(* SpecListsAgain: parseLists applied to one text                          *)
(***************************************************************************)
InitListsAgain ==
    /\ pc = "callParseLists"
    /\ markdown \in {StringValue(t) : t \in ListTextsAgain}
    /\ html = <<>>
    /\ ScanIdle
    /\ TypingIdle

\* lines 105-122
CallParseLists ==
    /\ pc = "callParseLists"
    /\ html' = parseLists(markdown.value)
    /\ pc' = "done"
    /\ UNCHANGED <<markdown, lines, i, result, inList, listStack, typing>>

NextListsAgain == CallParseLists

SpecListsAgain == InitListsAgain /\ [][NextListsAgain]_vars

(***************************************************************************)
(* SpecTables: parseTables applied to one text                             *)
(***************************************************************************)
InitTables ==
    /\ pc = "parseTables"
    /\ markdown \in {StringValue(t) : t \in TableTexts}
    /\ html = <<>>
    /\ ScanIdle
    /\ TypingIdle

\* lines 331-373
CallParseTables ==
    /\ pc = "parseTables"
    /\ html' = parseTables(markdown.value)
    /\ pc' = "done"
    /\ UNCHANGED <<markdown, lines, i, result, inList, listStack, typing>>

NextTables == CallParseTables

SpecTables == InitTables /\ [][NextTables]_vars

(***************************************************************************)
(* Properties                                                              *)
(***************************************************************************)
Finished == pc = "done" /\ markdown.type = "string"
doc == markdown.value

\* the document is one closed fenced block without a language token, and
\* its body holds no backtick
IsFencedDoc(d) ==
    /\ Len(d) >= 2 * Len(Fence) + 2
    /\ StartsWith(d, Fence \o <<NL>>)
    /\ EndsWith(d, <<NL>> \o Fence)
    /\ \A k \in 5..(Len(d) - 4) : d[k] # BackTick
FencedBody(d) == Sub(d, 5, Len(d) - 4)

\* C1: when the document is a closed fenced block, the output of
\* parseMarkdown is <pre><code>, the escaped and trimmed body, </code></pre>:
\* no pass after parseCodeBlocks has rewritten the body.
C1_CodeBodyNeverRewritten ==
    (Finished /\ IsFencedDoc(doc))
        => html = PreCodeOpen \o <<">">> \o escapeHtml(Trim(FencedBody(doc))) \o PreCodeClose

\* The pushed lines of wrapListItems read as tags.
IsOpenTag(l) == l \in {UlOpen, OlOpen}
IsCloseTag(l) == l \in {UlClose, OlClose}
IsItemLine(l) == StartsWith(l, LiOpen)
Closes(close, open) ==
    \/ (close = UlClose /\ open = UlOpen)
    \/ (close = OlClose /\ open = OlOpen)

\* The opening tags of ls that are still open at its end, oldest first,
\* given those open before it; Unbalanced when a closing tag does not close
\* the last opened list, or a line that is no item stands inside a list.
Unbalanced == << <<"!">> >>

RECURSIVE OpenLists(_, _)
OpenLists(ls, open) ==
    IF ls = <<>> \/ open = Unbalanced THEN open
    ELSE LET l == Head(ls)
             n == Len(open)
         IN  IF IsOpenTag(l) THEN OpenLists(Tail(ls), Append(open, l))
             ELSE IF IsCloseTag(l)
                  THEN IF n > 0 /\ Closes(l, open[n])
                       THEN OpenLists(Tail(ls), SubSeq(open, 1, n - 1))
                       ELSE Unbalanced
             ELSE IF IsItemLine(l)
                  THEN IF n > 0 THEN OpenLists(Tail(ls), open) ELSE Unbalanced
             ELSE IF n = 0 THEN OpenLists(Tail(ls), open) ELSE Unbalanced

\* how many lists of ls are opened outside every other list
RECURSIVE OuterLists(_, _)
OuterLists(ls, depth) ==
    IF ls = <<>> THEN 0
    ELSE IF IsOpenTag(Head(ls))
         THEN (IF depth = 0 THEN 1 ELSE 0) + OuterLists(Tail(ls), depth + 1)
    ELSE IF IsCloseTag(Head(ls)) THEN OuterLists(Tail(ls), depth - 1)
    ELSE OuterLists(Tail(ls), depth)

\* the loop of wrapListItems stands at a tagged item
AtItem == AtLine /\ listMatch.ok
PushedSince == SubSeq(result', Len(result) + 1, Len(result'))

\* C2: the unordered items at the levels 0,1,1,0 come out as one outer list
\* with balanced tags; in general an item whose (level, ordered) is that of
\* a list that is still open is appended to that list: the list stays open,
\* the lists inside it are closed and no list is opened.
C2_EnclosingListContinues ==
    /\ [][(AtItem /\ inList) =>
            \A k \in 1..Len(listStack) :
                listStack[k] = Frame(listMatch.level, listMatch.isOrdered)
                    => /\ listStack' = SubSeq(listStack, 1, k)
                       /\ \A j \in 1..Len(PushedSince) : ~IsOpenTag(PushedSince[j])]_vars
    /\ []((Finished /\ doc = Levels0110)
            => (OuterLists(result, 0) = 1 /\ OpenLists(result, <<>>) = <<>>))

\* C3: an item at the level of the innermost open list but of the other
\* marker type closes that list and opens a list of its own type, in which
\* the item is emitted, whatever the depth.
C3_MarkerSwitchOpensNewList ==
    [][(AtItem /\ inList /\ listMatch.level = currentList.level
              /\ listMatch.isOrdered # currentList.isOrdered)
          => /\ PushedSince = <<CloseTag(currentList.isOrdered),
                                OpenTag(listMatch.isOrdered),
                                ItemLine(listMatch.content)>>
             /\ listStack' = Append(SubSeq(listStack, 1, Len(listStack) - 1),
                                    Frame(listMatch.level, listMatch.isOrdered))]_vars

\* C4: in the lines pushed by wrapListItems every closing tag closes the
\* list opened last, no line that is no item stands inside a list, and at
\* the end of the input no list is open.
C4_ListTagsBalanced ==
    (pc \in {"wrapListItems", "done"})
        => /\ OpenLists(result, <<>>) # Unbalanced
           /\ (pc = "done" => OpenLists(result, <<>>) = <<>>)
           /\ (pc = "done" => html = Join(result, <<NL>>))

\* C4 witness: a finished scan that opened an <ol> inside a <ul> and closed
\* both before a line that is no item
C4_Witness ==
    /\ pc = "done"
    /\ \E a, b, c \in 1..Len(result) :
          /\ a < b /\ b < c
          /\ result[a] = UlOpen
          /\ result[b] = OlOpen
          /\ OpenLists(SubSeq(result, 1, b), <<>>) = <<UlOpen, OlOpen>>
          /\ result[c] = <<"x">>

\* a markdown line <indent>- content or <indent>N. content
IsMarkdownItem(l) ==
    LET d == RunEnd(l, 1, {SP})
        e == RunEnd(l, d, Digit)
    IN  \/ (StartsAt(l, d, <<"-", SP>>) /\ Len(l) > d + 1)
        \/ (e > d /\ StartsAt(l, e, <<".", SP>>) /\ Len(l) > e + 1)

Count(ls, P(_)) == Cardinality({k \in 1..Len(ls) : P(ls[k])})
IsTaggedLine(l) == Includes(l, LiLevelOpen)

\* C5: after parseLists every item line of the input is a plain <li> inside
\* a list, and no line tagged with data-level is left.
C5_EveryItemWrapped ==
    (pc = "done")
        => /\ Count(result, IsTaggedLine) = 0
           /\ Count(result, IsItemLine) = Count(Split(doc, <<NL>>), IsMarkdownItem)
           /\ OpenLists(result, <<>>) = <<>>

\* the document is one image ![alt](src) and nothing else
IsImageDoc(d) ==
    /\ StartsWith(d, <<"!">>)
    /\ PlainTarget(d, 2, 0).ok
    /\ PlainTarget(d, 2, 0).end = Len(d) + 1
    /\ ~Includes(d, <<QUOTE>>)

\* C6: an image ![alt](src) comes out of parseMarkdown as the <img> element
\* of the image rewrite, and the link rewrite makes no <a> element of it.
C6_ImageNotLinked ==
    (Finished /\ IsImageDoc(doc))
        => /\ Includes(html, ImgHtml(PlainTarget(doc, 2, 0).url, PlainTarget(doc, 2, 0).label, <<>>))
           /\ ~Includes(html, <<"<","a"," ">>)

\* the document is one link [label](url) whose url is an http url, and the
\* passes before parseLinks leave it as it is
IsUrlLinkDoc(d) ==
    /\ PlainTarget(d, 1, 1).ok
    /\ PlainTarget(d, 1, 1).end = Len(d) + 1
    /\ StartsWith(PlainTarget(d, 1, 1).url, <<"h","t","t","p",":","/","/">>)
    /\ ApplyPasses(6, d) = ApplyPasses(1, d)

\* C7: the url of [label](http://...) is rewritten once: parseLinks returns
\* the anchor of the plain-link rewrite, and the autolink rewrite does not
\* match inside its href.
C7_LinkRewrittenOnce ==
    (pc = "parseImages" /\ IsUrlLinkDoc(doc))
        => html = AnchorHtml(PlainTarget(doc, 1, 1).url, <<>>, PlainTarget(doc, 1, 1).label)

\* the document is one inline code span and nothing else
IsCodeSpanDoc(d) ==
    /\ Len(d) >= 3
    /\ d[1] = BackTick
    /\ d[Len(d)] = BackTick
    /\ \A k \in 2..(Len(d) - 1) : d[k] \notin {BackTick, NL}

\* C8: the content of an inline code span stands between <code> and </code>
\* in the output of parseMarkdown as it was written.
C8_InlineCodeNeverRewritten ==
    (Finished /\ IsCodeSpanDoc(doc))
        => Includes(html, CodeOpen \o Sub(doc, 2, Len(doc) - 1) \o CodeClose)

\* the document is one heading line: 1..6 "#", one space, a content that
\* starts with no space
IsHeadingDoc(d) ==
    LET h == RunEnd(d, 1, {"#"})
    IN  /\ h - 1 \in 1..6
        /\ StartsAt(d, h, <<SP>>)
        /\ Len(d) > h
        /\ d[h + 1] \notin WhiteSpace
        /\ ~Includes(d, <<NL>>)
HeadingLevel(d) == RunEnd(d, 1, {"#"}) - 1
HeadingContent(d) == Sub(d, RunEnd(d, RunEnd(d, 1, {"#"}), {SP}), Len(d))

\* the opening tag that parseHeaders emits
OpeningTag(level, content) ==
    <<"<","h">> \o NatToString(level) \o <<" ","i","d","=",QUOTE>>
        \o generateHeaderId(content) \o <<QUOTE,">">>

\* C9: the opening tag <hN id="slug"> that parseHeaders emits for a heading
\* starts the output of parseMarkdown unchanged.
C9_HeadingTagNotCorrupted ==
    (Finished /\ IsHeadingDoc(doc))
        => StartsWith(html, OpeningTag(HeadingLevel(doc), HeadingContent(doc)))

\* The slug as the specification words it, in one pass over the content:
\* lower case, the characters other than word characters, white space and
\* hyphen dropped, one hyphen for each run of white space.
RECURSIVE SlugFrom(_, _)
SlugFrom(text, afterSpace) ==
    IF text = <<>> THEN <<>>
    ELSE LET c == toLowerCaseChar(Head(text))
         IN  IF c \in WhiteSpace
             THEN (IF afterSpace THEN <<>> ELSE <<"-">>) \o SlugFrom(Tail(text), TRUE)
             ELSE IF c \in WordChar \cup {"-"} THEN <<c>> \o SlugFrom(Tail(text), FALSE)
             ELSE SlugFrom(Tail(text), afterSpace)
Slug(content) == SlugFrom(content, FALSE)

\* a heading line of SpecHeaders: 1..6 "#", spaces, content
IsHeadingLine(d) == RunEnd(d, 1, {"#"}) - 1 \in 1..6

HeadingElement(level, slug, content) ==
    <<"<","h">> \o NatToString(level) \o <<" ","i","d","=",QUOTE>> \o slug \o <<QUOTE,">">>
        \o content \o <<"<","/","h">> \o NatToString(level) \o <<">">>

HeadingId(text) ==
    LET q == Find(text, 1, <<QUOTE>>)
    IN  Sub(text, q + 1, Find(text, q + 1, <<QUOTE>>) - 1)

\* C11: the slug that parseHeaders puts in the id attribute of a heading
\* neither begins nor ends with a hyphen.
C11_SlugHasNoEdgeHyphen ==
    (pc = "done" /\ IsHeadingLine(doc))
        => LET id == HeadingId(html)
           IN  id = <<>> \/ (id[1] # "-" /\ id[Len(id)] # "-")

\* The elements of parseEmphasis: opening and closing tag.
EmphasisTags == {<<StrongOpen, StrongClose>>, <<EmOpen, EmClose>>, <<DelOpen, DelClose>>}

\* whether the emphasis tags of the text from p on close in the reverse
\* order of their opening, open being the closing tags still awaited
RECURSIVE WellNestedFrom(_, _, _)
WellNestedFrom(text, p, open) ==
    IF p > Len(text) THEN open = <<>>
    ELSE IF \E e \in EmphasisTags : StartsAt(text, p, e[1])
    THEN LET e == CHOOSE e \in EmphasisTags : StartsAt(text, p, e[1])
         IN  WellNestedFrom(text, p + Len(e[1]), <<e[2]>> \o open)
    ELSE IF \E e \in EmphasisTags : StartsAt(text, p, e[2])
    THEN /\ open # <<>>
         /\ StartsAt(text, p, Head(open))
         /\ WellNestedFrom(text, p + Len(Head(open)), Tail(open))
    ELSE WellNestedFrom(text, p + 1, open)
WellNested(text) == WellNestedFrom(text, 1, <<>>)

\* the first bold span of the text for the marker character c: the text up
\* to the first c, then cc, a non-empty x free of c, and cc
FirstBold(text, c) ==
    LET p == StopAt(text, 1, {c})
        z == IF p + 2 > Len(text) THEN p + 2 ELSE StopAt(text, p + 2, {c})
    IN  [ok  |-> StartsAt(text, p, <<c, c>>) /\ z > p + 2 /\ StartsAt(text, z, <<c, c>>),
         pre |-> Sub(text, 1, p - 1),
         x   |-> Sub(text, p + 2, z - 1)]

EmphasisMarkers == {"*", "_", "~"}

BoldThenItalicHtml ==
    StrongOpen \o <<"a">> \o StrongClose \o <<" ">> \o EmOpen \o <<"b">> \o EmClose

\* what C12 says of a text whose first bold span is cc x cc
BoldRendered(text, out, c) ==
    /\ StartsWith(out, FirstBold(text, c).pre \o StrongOpen \o FirstBold(text, c).x \o StrongClose)
    /\ WellNested(out)
    /\ ~Includes(out, EmOpen \o EmClose)

C13_NoEmphasisAcrossBlankLine ==
    pc = "done" =>
        \A e \in EmphasisTags, p \in 1..Len(html) :
            StartsAt(html, p, e[1])
                => LET q == Find(html, p, e[2])
                   IN  q = 0 \/ ~Includes(Sub(html, p, q), <<NL, NL>>)

\* a text without markdown markers: characters of PlainChars, and no ">" at
\* the start of a line
IsPlainText(d) ==
    \A p \in 1..Len(d) : d[p] \in PlainChars /\ (d[p] = ">" => ~AtLineStart(d, p))

Paragraph(text) == <<"<","p",">">> \o text \o <<"<","/","p",">">>

IsOneBlock(d) ==
    /\ Trim(d) # <<>>
    /\ ~Includes(Trim(d), <<NL, NL>>)
    /\ ~Includes(d, <<SP, SP, NL>>)
    /\ ~isBlockElement(Trim(d))

C15_PlainOutputIsFixedPoint ==
    (Finished /\ IsPlainText(doc)) => parseMarkdown(StringValue(html)) = html

\* C15 witness: <p>a</p> has come out of "a", and parseMarkdown keeps it
C15_Witness ==
    /\ Finished
    /\ doc = <<"a">>
    /\ html = Paragraph(<<"a">>)
    /\ parseMarkdown(StringValue(html)) = html

\* how many times pat occurs in text
Occurrences(text, pat) == Cardinality({p \in 1..Len(text) : StartsAt(text, p, pat)})

\* the lines of d for which P holds
LinesWhere(d, P(_)) == {k \in 1..Len(Split(d, <<NL>>)) : P(Split(d, <<NL>>)[k])}

IsFenceLine(l) == StartsWith(l, Fence)
IsLevel1Heading(l) == IsHeadingDoc(l) /\ HeadingLevel(l) = 1

\* the document has one fence line and a heading line after it, so the
\* fence opens a block that nothing closes
HasUnterminatedFence(d) ==
    /\ Cardinality(LinesWhere(d, IsFenceLine)) = 1
    /\ \E f \in LinesWhere(d, IsFenceLine), h \in LinesWhere(d, IsLevel1Heading) : f < h

H1OpenTag == <<"<","h","1"," ","i","d","=",QUOTE>>

\* C16: when the one fence of the document is never closed, parseMarkdown
\* returns, its output holds no <pre><code> block, and every heading line
\* has become an <h1> element.
C16_UnterminatedFenceKeepsHeadings ==
    (pc = "done" /\ markdown.type = "string" /\ HasUnterminatedFence(doc))
        => /\ ~Includes(html, PreCodeOpen)
           /\ Occurrences(html, H1OpenTag) = Cardinality(LinesWhere(doc, IsLevel1Heading))

\* C16 witness: an opening fence and the line "# h" have come out as a
\* paragraph that holds the fence and the <h1> element
C16_Witness ==
    /\ pc = "done"
    /\ markdown = StringValue(Fence \o <<NL, "#", " ", "h">>)
    /\ html = Paragraph(Fence \o <<NL>> \o HeadingElement(1, <<"h">>, <<"h">>))

\* C17: for an input that is no string, or the empty string, parseMarkdown
\* runs no pass and returns the empty string.
C17_RejectedInputReturnsEmpty ==
    (markdown.type # "string" \/ markdown.value = <<>>)
        => (pc \in {"parseMarkdown", "done"} /\ html = <<>>)

\* C17 witness: parseMarkdown(null) has returned
C17_Witness == pc = "done" /\ markdown.type = "null" /\ html = <<>>

\* the positions of the three pop loops of wrapListItems
PopLoops == {"closeNested", "closeAll", "closeRemaining"}

\* C18: every call of parseMarkdown on a string returns, and every
\* iteration of a pop loop of wrapListItems takes one frame off listStack.
C18_ParseMarkdownTerminates ==
    /\ <>(pc = "done")
    /\ [][(pc \in PopLoops /\ pc' = pc) => Len(listStack') = Len(listStack) - 1]_vars

\* C18 witness: the call has returned for items at the levels 0, 2, 1, whose
\* last item made the loop of line 163 pop the frame of level 2
C18_Witness ==
    /\ pc = "done"
    /\ doc = Join(<< <<"-"," ","a">>, <<" "," "," "," ","-"," ","a">>,
                     <<" "," ","1","."," ","a">> >>, <<NL>>)
    /\ Occurrences(html, UlClose) = 2
    /\ html = parseMarkdown(markdown)

\* the block-level tags
BlockTagNames ==
    { <<"h","1">>, <<"h","2">>, <<"h","3">>, <<"h","4">>,
      <<"h","5">>, <<"h","6">>, <<"p">>, <<"d","i","v">>,
      <<"b","l","o","c","k","q","u","o","t","e">>, <<"p","r","e">>,
      <<"u","l">>, <<"o","l">>, <<"l","i">>,
      <<"t","a","b","l","e">>, <<"f","o","r","m">>,
      <<"f","i","e","l","d","s","e","t">>,
      <<"a","d","d","r","e","s","s">> }

\* the name of the tag a block begins with, <<>> if it begins with none
TagName(block) ==
    IF block # <<>> /\ block[1] = "<"
    THEN Sub(block, 2, RunEnd(block, 2, Lower \cup Upper \cup Digit) - 1)
    ELSE <<>>

BeginsWithBlockTag(block) == TagName(block) \in BlockTagNames

\* the non-empty trimmed blocks of a text
TrimmedBlocks(text) ==
    LET blocks == Split(text, <<NL, NL>>)
        IsBlock(b) == b # <<>>
    IN  SelectSeq([k \in 1..Len(blocks) |-> Trim(blocks[k])], IsBlock)

WrappedUnlessBlockTag(block) ==
    IF BeginsWithBlockTag(block) THEN block ELSE Paragraph(block)

\* C19: parseParagraphs wraps a non-empty trimmed block in <p>, </p> exactly
\* when the block does not begin with one of the block-level tags h1..h6, p,
\* div, blockquote, pre, ul, ol, li, table, form, fieldset, address; a block
\* that begins with one of them, with or without attributes, passes through,
\* and a block that begins with any other tag is wrapped.
C19_WrapsExactlyNonBlockTags ==
    pc = "done" =>
        LET blocks == TrimmedBlocks(doc)
        IN  html = Join([k \in 1..Len(blocks) |-> WrappedUnlessBlockTag(blocks[k])],
                        <<NL, NL>>)

\* the entity of each of the five characters
Entity(c) ==
    CASE c = "&"   -> <<"&","a","m","p",";">>
      [] c = "<"   -> <<"&","l","t",";">>
      [] c = ">"   -> <<"&","g","t",";">>
      [] c = QUOTE -> <<"&","q","u","o","t",";">>
      [] c = "'"   -> <<"&","#","3","9",";">>

\* text with each of the five characters replaced by its entity, once
RECURSIVE EscapedOnce(_)
EscapedOnce(text) ==
    IF text = <<>> THEN <<>>
    ELSE (IF Head(text) \in {"&", "<", ">", QUOTE, "'"} THEN Entity(Head(text))
          ELSE <<Head(text)>>) \o EscapedOnce(Tail(text))

\* the element of a closed fenced block
FencedElement(token, body) ==
    <<"<","p","r","e",">","<","c","o","d","e">>
        \o (IF token = <<>> THEN <<>>
            ELSE <<" ","c","l","a","s","s","=",QUOTE,"l","a","n","g","u","a","g","e","-">>
                     \o token \o <<QUOTE>>)
        \o <<">">> \o EscapedOnce(body)
        \o <<"<","/","c","o","d","e",">","<","/","p","r","e",">">>

\* the lines of a text with every closed fenced block (a fence line, the
\* lines of its body, the next fence line) replaced by its element
RECURSIVE WithFencedElements(_)
WithFencedElements(ls) ==
    IF ls = <<>> THEN <<>>
    ELSE LET closing == {j \in 2..Len(ls) : StartsWith(ls[j], Fence)}
         IN  IF StartsWith(Head(ls), Fence) /\ closing # {}
             THEN <<FencedElement(Sub(Head(ls), Len(Fence) + 1, Len(Head(ls))),
                                  Join(SubSeq(ls, 2, Min(closing) - 1), <<NL>>))>>
                      \o WithFencedElements(SubSeq(ls, Min(closing) + 1, Len(ls)))
             ELSE <<Head(ls)>> \o WithFencedElements(Tail(ls))

\* C20: for every closed fenced block parseCodeBlocks emits <pre><code>, the
\* body with each of & < > " ' replaced by its entity exactly once (none of
\* them is left raw, no entity is escaped again), </code></pre>, and the
\* code tag has class="language-TOKEN" exactly when a language token follows
\* the opening fence.
C20_FencedBlockEscapedOnce ==
    pc = "done" => html = Join(WithFencedElements(Split(doc, <<NL>>)), <<NL>>)

\* the scan of wrapListItems is under way
InScan == pc = "wrapListItems"

CountOf(res, tags) == Cardinality({k \in 1..Len(res) : res[k] \in tags})
CountOpen(res) == CountOf(res, {UlOpen, OlOpen})
CountClose(res) == CountOf(res, {UlClose, OlClose})

\* the list tags of res that are open at its end, outermost first: TRUE for
\* <ol>, FALSE for <ul>
RECURSIVE OpenMarkers(_)
OpenMarkers(res) ==
    IF res = <<>> THEN <<>>
    ELSE LET before == OpenMarkers(SubSeq(res, 1, Len(res) - 1))
             last == res[Len(res)]
         IN  IF last = UlOpen THEN Append(before, FALSE)
             ELSE IF last = OlOpen THEN Append(before, TRUE)
             ELSE IF last \in {UlClose, OlClose} /\ before # <<>>
                  THEN SubSeq(before, 1, Len(before) - 1)
             ELSE before

StrictlyIncreasing(stack) ==
    \A k \in 1..(Len(stack) - 1) : stack[k].level < stack[k + 1].level

\* C21: in every state of the scan the frames of listStack are strictly
\* increasing in level from bottom to top, the frames are the list tags that
\* are open, in order and with their marker type, and a frame pushed with an
\* opening tag holds the level and the marker type of the item the tag was
\* opened for.
C21_StackMirrorsOpenLists ==
    /\ [](InScan => /\ StrictlyIncreasing(listStack)
                    /\ [k \in 1..Len(listStack) |-> listStack[k].isOrdered] = OpenMarkers(result))
    /\ [][(AtLine /\ CountOpen(result') > CountOpen(result))
              => /\ listStack' # <<>>
                 /\ listStack'[Len(listStack')] = Frame(listMatch.level, listMatch.isOrdered)]_vars

\* three lists are open, one inside the other
C21_Witness == InScan /\ Len(listStack) = 3 /\ OpenMarkers(result) = <<FALSE, TRUE, FALSE>>

\* C22: after each processed line the length of listStack is the number of
\* opening list tags emitted so far minus the number of closing list tags
\* emitted so far.
C22_StackDepthIsNestingDepth ==
    (pc \in {"wrapListItems", "done"})
        => Len(listStack) = CountOpen(result) - CountClose(result)

C22_Witness ==
    InScan /\ CountOpen(result) = 3 /\ CountClose(result) = 2 /\ Len(listStack) = 1

\* C23: whenever wrapListItems emits the <li> of an item, the top frame of
\* listStack has the level and the marker type of the item.
C23_ItemEmittedIntoItsOwnList ==
    [][AtItem
          => /\ listStack' # <<>>
             /\ listStack'[Len(listStack')] = Frame(listMatch.level, listMatch.isOrdered)]_vars

\* the closing tags of the frames of a stack, innermost first
Closers(stack) ==
    [k \in 1..Len(stack) |-> CloseTag(stack[Len(stack) + 1 - k].isOrdered)]

\* C26: at a line that is no item wrapListItems pushes the closing tags of
\* all open frames, innermost first, leaves listStack empty and pushes the
\* line unchanged; when no list is open it pushes the line and nothing else.
C26_NonListLineClosesAllLists ==
    [][(AtLine /\ ~listMatch.ok)
          => /\ result' = (result \o Closers(listStack)) \o <<lines[i]>>
             /\ listStack' = <<>>]_vars

\* a line that is no item has closed an <ol> inside a <ul>
C26_Witness ==
    /\ InScan
    /\ i = 4
    /\ lines[3] = <<"x">>
    /\ result = <<UlOpen, ItemLine(<<"a">>), OlOpen, ItemLine(<<"a">>), OlClose, UlClose, <<"x">> >>
    /\ listStack = <<>>

\* C28: at every line boundary of the scan inList is true exactly when
\* listStack is not empty.
C28_InListIffStackNonEmpty == InScan => (inList <=> listStack # <<>>)

\* a list was opened and a line that is no item has closed it
C28_Witness == InScan /\ ~inList /\ CountClose(result) = 1 /\ i <= Len(lines)

\* the per-line rewrite of parseLists is done: lines holds its result
Tagged == pc \in {"wrapListItems", "done"}
docLines == Split(doc, <<NL>>)
Indent(l) == RunEnd(l, 1, {SP}) - 1
HasEmptyLine(d) == d = <<>> \/ Includes(d, <<NL, NL>>) \/ d[1] = NL \/ d[Len(d)] = NL

\* C24: every item line comes out of the per-line rewrite as a tagged line
\* that wrapListItems recognises, with the level of its leading white-space
\* count divided by 2, a whole number, for every width of the indent (in a
\* text without empty lines, where the lines keep their places).
C24_LevelIsWholeNumber ==
    (Tagged /\ ~HasEmptyLine(doc))
        => /\ Len(lines) = Len(docLines)
           /\ \A k \in 1..Len(docLines) :
                  IsMarkdownItem(docLines[k])
                      => /\ ListMatch(lines[k]).ok
                         /\ ListMatch(lines[k]).level = Indent(docLines[k]) \div 2

\* C25: the per-line rewrite keeps the number of lines, and an item line
\* without leading spaces gets the level 0 whether or not an empty line
\* stands before it.
C25_RewriteStaysOnItsLine ==
    Tagged
        => /\ Len(lines) = Len(docLines)
           /\ \A k \in 1..Len(docLines) :
                  (IsMarkdownItem(docLines[k]) /\ Indent(docLines[k]) = 0)
                      => /\ ListMatch(lines[k]).ok
                         /\ ListMatch(lines[k]).level = 0

IsFixedPoint(F(_), text) == F(F(text)) = F(text)

\* C27: the list pass applied to its own output changes nothing:
\* parseLists(parseLists(t)) = parseLists(t), and the same for
\* wrapListItems, on the text and on the text with its items tagged.
C27_ListPassIdempotent ==
    pc = "done"
        => /\ parseLists(html) = html
           /\ IsFixedPoint(wrapListItems, doc)
           /\ IsFixedPoint(wrapListItems, TagListItems(doc))

\* a table-row line: it begins and ends with "|" once trimmed
IsRowLine(l) == Trim(l) # <<>> /\ Head(Trim(l)) = "|" /\ Trim(l)[Len(Trim(l))] = "|"

\* a separator row: only "|", "-" and white space
IsSeparatorRow(l) == IsRowLine(l) /\ \A k \in 1..Len(l) : l[k] \in WhiteSpace \cup {"-", "|"}

\* the trimmed cells of a row, in order
RowCells(l) ==
    LET row == Trim(l)
        bars == {k \in 1..Len(row) : row[k] = "|"}
        after(k) == Min({j \in bars : j > k})
        RECURSIVE From(_)
        From(k) == IF k = Max(bars) THEN <<>>
                   ELSE <<Trim(Sub(row, k + 1, after(k) - 1))>> \o From(after(k))
    IN  IF Cardinality(bars) = 1 THEN << <<>> >> ELSE From(1)

RowElement(l, tag) ==
    <<"<","t","r",">",NL>>
        \o Join([k \in 1..Len(RowCells(l)) |->
                    <<"<">> \o tag \o <<">">> \o RowCells(l)[k]
                        \o <<"<","/">> \o tag \o <<">", NL>>], <<>>)
        \o <<"<","/","t","r",">",NL>>

\* the table of a run of rows: the first row is the header, a separator row
\* right after it is left out, every other row is a body row
TableOfRun(run) ==
    LET body == IF Len(run) >= 2 /\ IsSeparatorRow(run[2])
                THEN SubSeq(run, 3, Len(run)) ELSE Tail(run)
    IN  <<"<","t","a","b","l","e",">",NL>>
            \o <<"<","t","h","e","a","d",">",NL>> \o RowElement(run[1], <<"t","h">>) \o <<"<","/","t","h","e","a","d",">",NL>>
            \o (IF body = <<>> THEN <<>>
                ELSE <<"<","t","b","o","d","y",">",NL>>
                         \o Join([k \in 1..Len(body) |-> RowElement(body[k], <<"t","d">>)], <<>>)
                         \o <<"<","/","t","b","o","d","y",">",NL>>)
            \o <<"<","/","t","a","b","l","e",">">>

\* the lines of a text with every maximal run of table rows replaced by its
\* table
RECURSIVE WithTables(_)
WithTables(ls) ==
    IF ls = <<>> THEN <<>>
    ELSE IF IsRowLine(Head(ls))
         THEN LET n == Min({k \in 1..(Len(ls) + 1) :
                               k = Len(ls) + 1 \/ ~IsRowLine(ls[k])}) - 1
              IN  <<TableOfRun(SubSeq(ls, 1, n))>> \o WithTables(SubSeq(ls, n + 1, Len(ls)))
         ELSE <<Trim(Head(ls))>> \o WithTables(Tail(ls))

\* C29: for every maximal run of table-row lines parseTables emits one
\* table: the first row is the <th> header, every later row is one <td>
\* body row with its cells in order, but for a separator row right after
\* the first row; no other row is dropped and no row is emitted twice.
C29_EveryRowOfRunInTable ==
    pc = "done" => html = Join(WithTables(docLines), <<NL>>)

(***************************************************************************)
(* Properties of the typing animation                                      *)
(***************************************************************************)
Shown == "profissao" \in elements

\* the element shows the first "index" characters of the current word
ShowsPrefix ==
    /\ index \in 0..Len(Profissao)
    /\ innerHTML = SubSeq(Profissao, 1, index)

\* a step types only while not erasing and erases only while erasing; the
\* flag is raised only on a word shown in full and lowered only on an empty
\* element, and the word changes exactly when the flag is lowered
Alternates ==
    /\ index' > index => ~isErasing /\ ~isErasing'
    /\ index' < index => isErasing /\ isErasing'
    /\ (~isErasing /\ isErasing') => innerHTML = Profissao /\ innerHTML' = Profissao
    /\ (isErasing /\ ~isErasing') => innerHTML = <<>> /\ innerHTML' = <<>>
    /\ IF isErasing /\ ~isErasing'
       THEN profissaoIndex' = (profissaoIndex + 1) % Len(profissoes)
       ELSE profissaoIndex' = profissaoIndex

\* every word is shown in full, and the element is emptied, again and again
EveryWordInTurn ==
    \A k \in 1..Len(profissoes) :
        /\ []<>(Shown => profissaoIndex = k - 1 /\ innerHTML = profissoes[k])
        /\ []<>(Shown => /\ profissaoIndex = k - 1
                         /\ innerHTML = <<>>
                         /\ ~isErasing)

\* C30: with the element #profissao present and empty at the start, the
\* element always shows the first "index" characters of
\* profissoes[profissaoIndex] with 0 <= index <= its length; typing and
\* erasing alternate, a word being typed in full before it is erased and
\* erased to nothing before the next is typed; profissaoIndex goes through
\* all the professions in a cycle.
C30_TypesAndErasesEachWordInTurn ==
    /\ [](Shown => ShowsPrefix)
    /\ [][Shown => Alternates]_vars
    /\ EveryWordInTurn

\* the second word half erased, the first having been typed and erased
C30_Witness ==
    /\ Shown
    /\ profissaoIndex = 1
    /\ isErasing
    /\ index = 7
    /\ innerHTML = <<"M", "a", "c", "h", "i", "n", "e">>
    /\ cursorAnimation = "pending"

====
